---- MODULE Spec2Model ----
(***************************************************************************)
(* Casa Arboledas reporting dashboard.                                     *)
(*                                                                         *)
(*   Spec      the dashboard: Auth, App.loadData and the DataService cache *)
(*             (src/data.js, src/unnamed/part_000, src/unnamed/part_001)   *)
(*   SpecCSV   DataService.parseCSV, one loop iteration per step           *)
(*   SpecNum   DataService.parseNumber                                     *)
(*   SpecDate  DataService.parseDate                                       *)
(*   SpecExp      calculateExpenseSummary and App.filterExpenses           *)
(*   SpecTable    the date filters and the order of the expense table      *)
(*   SpecBudget   DataService.parseBudget on an edited sheet               *)
(*   SpecLedger   DataService.parseExpenses on an edited sheet             *)
(*   SpecCapital  DataService.parseCapital on an edited sheet              *)
(*   SpecProgress the progress bars of App.renderAll                       *)
(*   SpecAuth     Auth.login, Auth.getSession, Auth.logout                 *)
(*                                                                         *)
(* Strings that the code inspects character by character are sequences of  *)
(* one-character strings.  Times are counted in minutes.                   *)
(***************************************************************************)
EXTENDS Integers, Sequences, FiniteSets, TLC

VARIABLES
    \* ---- the dashboard (Spec) ----
    now,              \* the wall clock, Date.now(), in minutes
    cache,            \* DataService.cache: project key -> snapshot
    cacheTimestamp,   \* DataService.cacheTimestamp
    calls,            \* fetchAllData calls awaiting Promise.all: id ->
                      \*   [key, now: the Date.now() it read, pending: the
                      \*   number of its fetchCSV promises not yet fulfilled]
    nCalls,           \* fetchAllData calls that went to the network so far
    requests,         \* fetch(url) requests issued so far
    ret,              \* how the fetchAllData promise settled last
    project,          \* App.project
    data,             \* App.data
    dashboard,        \* #dashboard shown (and #login-screen hidden)
    loadingState,     \* #loading-state shown
    errorState,       \* #error-state shown
    mainContent,      \* #main-content shown
    \* ---- parseCSV (SpecCSV) ----
    csvText,          \* the argument
    i,                \* the loop index, counted from 1
    rows,
    currentRow,
    currentField,
    inQuotes,
    csvPc,            \* "loop": in the for loop or at its exit; "done": returned
    \* ---- parseNumber (SpecNum) ----
    numStr,           \* the argument
    numResult,        \* the value returned
    numPc,            \* "call": entered; "done": returned
    \* ---- parseDate (SpecDate) ----
    dateStr,          \* the argument
    dateEngine,       \* what new Date(dateStr) is in the engine at hand
    dateResult,       \* the value returned
    datePc,           \* "call": entered; "done": returned
    \* ---- the expenses: calculateExpenseSummary, filterExpenses (SpecExp) ----
    expenses,         \* App.data.expenses
    timeZone,         \* hours that local time is ahead of UTC
    expSummary,       \* expSummary of renderAll
    filterCategory,   \* value of #filter-category
    filterSubcategory, \* value of #filter-subcategory
    filterDateFrom,   \* value of #filter-date-from
    filterDateTo,     \* value of #filter-date-to
    tableRows,        \* the rows of #expenses-tbody, in order
    tableTotal,       \* the sum shown in #expenses-total
    noExpenses,       \* #no-expenses shown (and .table-wrapper hidden)
    expPc,            \* "loaded": data set; "rendered": renderAll has run
    \* ---- the sheets: parseBudget, parseExpenses, parseCapital ----
    sheetRows,        \* the rows that fetchCSV returned
    sheetEngine,      \* what new Date(str) is for a string that is no date
    parsedModel,      \* what the parse function returned
    lastEdit,         \* the last change made to the spreadsheet
    sheetPc,          \* "fetched": rows at hand; "parsed": model at hand
    budgetTotals,     \* budget.<category>.total of the data shown
    byCategory,       \* expSummary.byCategory of the data shown
    categoryProgress, \* #category-progress-summary, by category
    budgetProgress,   \* #hard-cost-progress, #soft-cost-progress, #terreno-progress
    badges,           \* #hard-cost-badge, #soft-cost-badge, #terreno-badge
    progPc,           \* "idle", "loaded", "rendered"
    \* ---- Auth (SpecAuth) ----
    currentProject,   \* Auth.currentProject: a project key, or "null"
    sessionStorage,   \* the item 'activeProject' of the session storage
    authCall,         \* the last call of Auth and its argument
    authResult,       \* what the last call returned
    loggedIn          \* history: a login has succeeded and no logout came since

appVars == <<project, data, dashboard, loadingState, errorState, mainContent>>
dsVars == <<now, cache, cacheTimestamp, calls, nCalls, requests, ret>>
csvVars == <<csvText, i, rows, currentRow, currentField, inQuotes, csvPc>>
numVars == <<numStr, numResult, numPc>>
dateVars == <<dateStr, dateEngine, dateResult, datePc>>
expVars ==
    <<expenses, timeZone, expSummary, filterCategory, filterSubcategory,
      filterDateFrom, filterDateTo, tableRows, tableTotal, noExpenses, expPc>>
sheetVars == <<sheetRows, sheetEngine, parsedModel, lastEdit, sheetPc>>
progVars == <<budgetTotals, byCategory, categoryProgress, budgetProgress, badges, progPc>>
authVars == <<currentProject, sessionStorage, authCall, authResult, loggedIn>>
vars == <<dsVars, appVars, csvVars, numVars, dateVars, expVars, sheetVars, progVars, authVars>>

----------------------------------------------------------------------------
(* Bounds of the model *)

\* the clock runs from 1 to MaxNow
MaxNow == 6
\* fetchAllData calls that go to the network in one behaviour
MaxCalls == 2
\* characters of a text given to parseCSV
MaxLen == 5
\* characters of a string given to parseNumber
MaxNumLen == 4
\* characters of the month and of the day in a string given to parseDate
MaxPartLen == 2
\* expenses in the ledger
MaxExpenses == 2
\* rows of the budget sheet and of the ledger
MaxRows == 3
\* investors in the capital sheet
MaxInvestors == 5

----------------------------------------------------------------------------
(* Configuration and constants *)

\* PROJECTS: the configured project and the place kept for further ones
PROJECT_KEYS == {"ARBOLEDAS", "PROJECT_KEY"}

\* project.sheets
SHEETS == {"budget", "desglose", "capital"}

\* 5 * 60 * 1000 ms, in minutes
CACHE_TTL == 5

\* fetchCSV fails on a transport error (fetch or response.text() rejects)
\* or on a response that is not ok
FetchErrors == {"transport", "http"}

NoProject == "null"
NullTimestamp == -1
NoSnapshot == [key |-> "null", call |-> 0, fetchedAt |-> 0]
NoReturn == [kind |-> "none", value |-> NoSnapshot, error |-> "none"]

\* the object fetchAllData builds: the three parsed sheets of `key`, as
\* fetched by call `c`, and fetchedAt: new Date()
Parsed(key, c, at) == [key |-> key, call |-> c, fetchedAt |-> at]

\* JavaScript truthiness of cacheTimestamp (null and 0 are falsy)
Truthy(ts) == ts # NullTimestamp /\ ts # 0

----------------------------------------------------------------------------
(* DataService *)

\* fetchAllData's test: this.cache[project.key] && this.cacheTimestamp &&
\* (now - this.cacheTimestamp) < this.CACHE_TTL
CacheValid(c, ts, key, t) ==
    /\ c[key] # NoSnapshot
    /\ Truthy(ts)
    /\ (t - ts) < CACHE_TTL

\* clearCache: this.cache = {}
ClearedCache == [k \in PROJECT_KEYS |-> NoSnapshot]

\* clearCache: this.cacheTimestamp = null
ClearedTimestamp == NullTimestamp

\* loadData up to its await, for project `key` on the cache state (c, ts):
\* the panels are switched to loading and fetchAllData is called. A valid
\* cache entry is returned at once and loadData goes on to show it; otherwise
\* the three sheets are requested and the call waits for them.
LoadData(key, c, ts) ==
    LET id == nCalls + 1
    IN  /\ errorState' = FALSE
        /\ IF CacheValid(c, ts, key, now)
           THEN /\ ret' = [kind |-> "cached", value |-> c[key], error |-> "none"]
                /\ data' = c[key]
                /\ loadingState' = FALSE
                /\ mainContent' = TRUE
                /\ UNCHANGED <<calls, nCalls, requests>>
           ELSE /\ nCalls < MaxCalls
                /\ nCalls' = id
                /\ calls' = [x \in DOMAIN calls \cup {id} |->
                               IF x = id
                               THEN [key |-> key, now |-> now, pending |-> Cardinality(SHEETS)]
                               ELSE calls[x]]
                /\ requests' = requests + Cardinality(SHEETS)
                /\ loadingState' = TRUE
                /\ mainContent' = FALSE
                /\ UNCHANGED <<ret, data>>
        /\ cache' = c
        /\ cacheTimestamp' = ts
        /\ UNCHANGED now

\* the calls left when call c has settled
Without(c) == [x \in DOMAIN calls \ {c} |-> calls[x]]

\* Promise.all resolves: the sheets are parsed, the cache and the timestamp
\* (the `now` read when the call began) are written, and loadData shows the
\* result
ResolveCall(c) ==
    LET parsed == Parsed(calls[c].key, c, now)
    IN  /\ cache' = [cache EXCEPT ![calls[c].key] = parsed]
        /\ cacheTimestamp' = calls[c].now
        /\ ret' = [kind |-> "fetched", value |-> parsed, error |-> "none"]
        /\ data' = parsed
        /\ loadingState' = FALSE
        /\ mainContent' = TRUE
        /\ calls' = Without(c)
        /\ UNCHANGED <<now, nCalls, requests, project, dashboard, errorState>>

\* RejectCall, had fetchAllData stored this.cacheTimestamp = now before
\* awaiting the sheets
RejectCallStamped(c, err) ==
    /\ ret' = [kind |-> "error", value |-> NoSnapshot, error |-> err]
    /\ loadingState' = FALSE
    /\ errorState' = TRUE
    /\ calls' = Without(c)
    /\ cacheTimestamp' = calls[c].now
    /\ UNCHANGED <<now, cache, nCalls, requests, data, project, dashboard,
                   mainContent>>

\* Promise.all rejects with the first error: fetchAllData throws it and
\* loadData's catch shows the error panel
RejectCall(c, err) ==
    /\ ret' = [kind |-> "error", value |-> NoSnapshot, error |-> err]
    /\ loadingState' = FALSE
    /\ errorState' = TRUE
    /\ calls' = Without(c)
    /\ UNCHANGED <<now, cache, cacheTimestamp, nCalls, requests, data,
                   project, dashboard, mainContent>>

\* one fetchCSV of call c returns its parsed rows; with the last of them
\* Promise.all resolves
SheetArrives(c) ==
    /\ c \in DOMAIN calls
    /\ IF calls[c].pending = 1
       THEN ResolveCall(c)
       ELSE /\ calls' = [calls EXCEPT ![c].pending = @ - 1]
            /\ UNCHANGED <<now, cache, cacheTimestamp, nCalls, requests, ret,
                           appVars>>

\* one fetchCSV of call c throws while the call awaits Promise.all
SheetFails(c, err) ==
    /\ c \in DOMAIN calls
    /\ RejectCall(c, err)

----------------------------------------------------------------------------
(* Auth and App *)

\* handleLogin with the password of project p: Auth.login, showDashboard,
\* loadData. The login form is on the login screen.
HandleLogin(p) ==
    /\ ~dashboard
    /\ project' = p
    /\ dashboard' = TRUE
    /\ LoadData(p, cache, cacheTimestamp)

\* RefreshClick, had the handler not called clearCache
RefreshClickNoClear ==
    /\ dashboard
    /\ LoadData(project, cache, cacheTimestamp)
    /\ UNCHANGED <<project, dashboard>>

\* the refresh button of the dashboard: clearCache, then loadData
RefreshClick ==
    /\ dashboard
    /\ LoadData(project, ClearedCache, ClearedTimestamp)
    /\ UNCHANGED <<project, dashboard>>

\* handleLogout: Auth.logout, then the login screen
HandleLogout ==
    /\ dashboard
    /\ project' = NoProject
    /\ data' = NoSnapshot
    /\ dashboard' = FALSE
    /\ UNCHANGED <<dsVars, loadingState, errorState, mainContent>>

\* time passes
Tick ==
    /\ now < MaxNow
    /\ now' = now + 1
    /\ UNCHANGED <<cache, cacheTimestamp, calls, nCalls, requests, ret, appVars>>

----------------------------------------------------------------------------
(* DataService.parseCSV *)

DQ == "\""
COMMA == ","
LF == "\n"
CR == "\r"
SP == " "

\* the characters the texts are made of: the four that parseCSV tests for,
\* a blank and a letter
Chars == {DQ, COMMA, LF, CR, SP, "a"}

\* what String.prototype.trim removes, among Chars
WhiteSpace == {LF, CR, SP}

Texts(n) == UNION {[1..k -> Chars] : k \in 0..n}

RECURSIVE TrimStart(_)
TrimStart(s) ==
    IF s # <<>> /\ s[1] \in WhiteSpace THEN TrimStart(Tail(s)) ELSE s

RECURSIVE TrimEnd(_)
TrimEnd(s) ==
    IF s # <<>> /\ s[Len(s)] \in WhiteSpace
    THEN TrimEnd(SubSeq(s, 1, Len(s) - 1))
    ELSE s

\* String.prototype.trim
Trim(s) == TrimEnd(TrimStart(s))

\* csvText[i] and csvText[i + 1] (undefined past the end), i counted from 1
Undefined == "undefined"
CharAt(text, k) == IF k \in 1..Len(text) THEN text[k] ELSE Undefined

\* QuotedStep, had it not looked at nextChar: a doubled quote closes the
\* field and opens it again
QuotedStepNoEscape(char, nextChar) ==
    /\ IF char = DQ
       THEN /\ inQuotes' = FALSE
            /\ currentField' = currentField
       ELSE /\ currentField' = Append(currentField, char)
            /\ inQuotes' = inQuotes
    /\ i' = i + 1
    /\ UNCHANGED <<rows, currentRow>>

\* the loop body when inQuotes
QuotedStep(char, nextChar) ==
    /\ IF char = DQ
       THEN IF nextChar = DQ
            THEN /\ currentField' = Append(currentField, DQ)
                 /\ i' = i + 2
                 /\ inQuotes' = inQuotes
            ELSE /\ inQuotes' = FALSE
                 /\ i' = i + 1
                 /\ currentField' = currentField
       ELSE /\ currentField' = Append(currentField, char)
            /\ i' = i + 1
            /\ inQuotes' = inQuotes
    /\ UNCHANGED <<rows, currentRow>>

\* PlainStep, had it ended rows at '\n' alone
PlainStepLFOnly(char, nextChar) ==
    IF char = DQ
    THEN /\ inQuotes' = TRUE
         /\ i' = i + 1
         /\ UNCHANGED <<rows, currentRow, currentField>>
    ELSE IF char = COMMA
    THEN /\ currentRow' = Append(currentRow, Trim(currentField))
         /\ currentField' = <<>>
         /\ i' = i + 1
         /\ UNCHANGED <<rows, inQuotes>>
    ELSE IF char = LF
    THEN /\ rows' = Append(rows, Append(currentRow, currentField))
         /\ currentRow' = <<>>
         /\ currentField' = <<>>
         /\ i' = i + 1
         /\ UNCHANGED inQuotes
    ELSE /\ currentField' = Append(currentField, char)
         /\ i' = i + 1
         /\ UNCHANGED <<rows, currentRow, inQuotes>>

\* the loop body when not inQuotes
PlainStep(char, nextChar) ==
    IF char = DQ
    THEN /\ inQuotes' = TRUE
         /\ i' = i + 1
         /\ UNCHANGED <<rows, currentRow, currentField>>
    ELSE IF char = COMMA
    THEN /\ currentRow' = Append(currentRow, Trim(currentField))
         /\ currentField' = <<>>
         /\ i' = i + 1
         /\ UNCHANGED <<rows, inQuotes>>
    ELSE IF char = LF \/ (char = CR /\ nextChar = LF)
    THEN LET pushed == Append(currentRow, Trim(currentField))
         IN  /\ rows' = IF Len(pushed) > 0 THEN Append(rows, pushed) ELSE rows
             /\ currentRow' = <<>>
             /\ currentField' = <<>>
             /\ i' = IF char = CR THEN i + 2 ELSE i + 1
             /\ UNCHANGED inQuotes
    ELSE /\ currentField' = Append(currentField, char)
         /\ i' = i + 1
         /\ UNCHANGED <<rows, currentRow, inQuotes>>

\* one iteration of the for loop
CsvIterate ==
    /\ csvPc = "loop"
    /\ i <= Len(csvText)
    /\ IF inQuotes
       THEN QuotedStep(CharAt(csvText, i), CharAt(csvText, i + 1))
       ELSE PlainStep(CharAt(csvText, i), CharAt(csvText, i + 1))
    /\ UNCHANGED <<csvText, csvPc>>

\* CsvFlush, had it pushed the last row only when a field was already in it
CsvFlushRowOnly ==
    /\ csvPc = "loop"
    /\ i > Len(csvText)
    /\ IF Len(currentRow) > 0
       THEN LET pushed == Append(currentRow, Trim(currentField))
            IN  /\ currentRow' = pushed
                /\ rows' = Append(rows, pushed)
       ELSE UNCHANGED <<rows, currentRow>>
    /\ csvPc' = "done"
    /\ UNCHANGED <<csvText, i, currentField, inQuotes>>

\* after the loop: push the last field and row, and return rows
CsvFlush ==
    /\ csvPc = "loop"
    /\ i > Len(csvText)
    /\ IF currentField # <<>> \/ Len(currentRow) > 0
       THEN LET pushed == Append(currentRow, Trim(currentField))
            IN  /\ currentRow' = pushed
                /\ rows' = Append(rows, pushed)
       ELSE UNCHANGED <<rows, currentRow>>
    /\ csvPc' = "done"
    /\ UNCHANGED <<csvText, i, currentField, inQuotes>>

\* parseCSV(text) entered
CsvStart(text) ==
    /\ csvText = text
    /\ i = 1
    /\ rows = <<>>
    /\ currentRow = <<>>
    /\ currentField = <<>>
    /\ inQuotes = FALSE
    /\ csvPc = "loop"

\* parseCSV not in use
CsvIdle ==
    /\ csvText = <<>>
    /\ i = 0
    /\ rows = <<>>
    /\ currentRow = <<>>
    /\ currentField = <<>>
    /\ inQuotes = FALSE
    /\ csvPc = "idle"

----------------------------------------------------------------------------
(* DataService.parseNumber *)

\* numbers: sign * (int + 0.frac), frac without trailing zeros; NaN apart
NaN == [sign |-> 0, int |-> 0, frac |-> <<>>]
Zero == [sign |-> 1, int |-> 0, frac |-> <<>>]

Digits == {"0", "1", "2", "3", "4", "5", "6", "7", "8", "9"}

DigitValue(c) ==
    CASE c = "0" -> 0 [] c = "1" -> 1 [] c = "2" -> 2 [] c = "3" -> 3
      [] c = "4" -> 4 [] c = "5" -> 5 [] c = "6" -> 6 [] c = "7" -> 7
      [] c = "8" -> 8 [] c = "9" -> 9

\* the longest prefix of s made of digits
RECURSIVE DigitPrefix(_)
DigitPrefix(s) ==
    IF s # <<>> /\ s[1] \in Digits
    THEN <<s[1]>> \o DigitPrefix(Tail(s))
    ELSE <<>>

\* the number a sequence of digits denotes
RECURSIVE NatOf(_)
NatOf(ds) ==
    IF ds = <<>> THEN 0
    ELSE 10 * NatOf(SubSeq(ds, 1, Len(ds) - 1)) + DigitValue(ds[Len(ds)])

RECURSIVE DropZeros(_)
DropZeros(ds) ==
    IF ds # <<>> /\ ds[Len(ds)] = "0"
    THEN DropZeros(SubSeq(ds, 1, Len(ds) - 1))
    ELSE ds

\* the number with the given sign, integer digits and fraction digits
\* (-0 and 0 are the same number)
Number(negative, intDigits, fracDigits) ==
    LET n == NatOf(intDigits)
        f == DropZeros(fracDigits)
    IN  [sign |-> IF negative /\ (n # 0 \/ f # <<>>) THEN -1 ELSE 1,
         int |-> n, frac |-> f]

\* how parseFloat reads s: sign, integer digits, and after a "." the
\* fraction digits, each the longest run there is; `rest` is what it leaves
\* unread. (Exponents and "Infinity" are not among the strings drawn here.)
FloatParts(s) ==
    LET signed == s # <<>> /\ s[1] \in {"-", "+"}
        body == IF signed THEN Tail(s) ELSE s
        intDigits == DigitPrefix(body)
        afterInt == SubSeq(body, Len(intDigits) + 1, Len(body))
        dotted == afterInt # <<>> /\ afterInt[1] = "."
        fracDigits == IF dotted THEN DigitPrefix(Tail(afterInt)) ELSE <<>>
        taken == Len(intDigits)
                 + (IF dotted THEN 1 + Len(fracDigits) ELSE 0)
    IN  [negative |-> signed /\ s[1] = "-",
         intDigits |-> intDigits,
         fracDigits |-> fracDigits,
         rest |-> SubSeq(body, taken + 1, Len(body))]

\* parseFloat(s), s without leading white space
ParseFloat(s) ==
    LET p == FloatParts(s)
    IN  IF p.intDigits = <<>> /\ p.fracDigits = <<>>
        THEN NaN
        ELSE Number(p.negative, p.intDigits, p.fracDigits)

\* the characters /[$\s,MXN]/gi matches
Stripped == {"$", ",", "M", "X", "N", "m", "x", "n", SP, LF, CR, "\t"}

\* String(str).replace(/[$\s,MXN]/gi, '').trim()
Cleaned(s) == Trim(SelectSeq(s, LAMBDA c : c \notin Stripped))

\* an argument that is null or undefined
NoString == <<"undefined">>

ParseNumber(str) ==
    IF str = NoString \/ str = <<>> THEN Zero
    ELSE LET cleaned == Cleaned(str)
         IN  IF cleaned = <<>> \/ cleaned = <<"-">> THEN Zero
             ELSE LET num == ParseFloat(cleaned)
                  IN  IF num = NaN THEN Zero ELSE num

\* the characters the arguments are made of
NumChars == {"$", ",", SP, "M", "1", "2", ".", "-", "a"}

\* "$1,234.56 MXN"
NumExample == <<"$", "1", ",", "2", "3", "4", ".", "5", "6", SP, "M", "X", "N">>

NumInputs ==
    UNION {[1..k -> NumChars] : k \in 0..MaxNumLen} \cup {NoString, NumExample}

\* parseNumber(str) entered
NumStart(str) ==
    /\ numStr = str
    /\ numResult = NaN
    /\ numPc = "call"

\* parseNumber not in use
NumIdle ==
    /\ numStr = <<>>
    /\ numResult = NaN
    /\ numPc = "idle"

\* parseNumber returns
NumReturn ==
    /\ numPc = "call"
    /\ numResult' = ParseNumber(numStr)
    /\ numPc' = "done"
    /\ UNCHANGED numStr

\* String.prototype.split on a one-character separator: the pieces of s
\* between the occurrences of sep
RECURSIVE SplitAt(_, _)
SplitAt(s, sep) ==
    IF \A k \in 1..Len(s) : s[k] # sep
    THEN <<s>>
    ELSE LET k == CHOOSE j \in 1..Len(s) :
                    s[j] = sep /\ \A h \in 1..(j - 1) : s[h] # sep
         IN  <<SubSeq(s, 1, k - 1)>> \o SplitAt(SubSeq(s, k + 1, Len(s)), sep)

----------------------------------------------------------------------------
(* DataService.parseDate *)

\* parseInt(s, 10): leading white space is skipped, then a sign and the
\* longest run of digits are read; NaN when there is no digit
ParseInt(s) ==
    LET t == TrimStart(s)
        signed == t # <<>> /\ t[1] \in {"-", "+"}
        ds == DigitPrefix(IF signed THEN Tail(t) ELSE t)
    IN  IF ds = <<>> THEN [nan |-> TRUE, n |-> 0]
        ELSE [nan |-> FALSE,
              n |-> IF signed /\ t[1] = "-" THEN 0 - NatOf(ds) ELSE NatOf(ds)]

\* dates: null, an Invalid Date object, or a calendar date in local time
NullDate == [null |-> TRUE, valid |-> FALSE, y |-> 0, m |-> 0, d |-> 0]
InvalidDate == [null |-> FALSE, valid |-> FALSE, y |-> 0, m |-> 0, d |-> 0]
CalendarDate(y, m, d) == [null |-> FALSE, valid |-> TRUE, y |-> y, m |-> m, d |-> d]

\* the day number of the calendar date (y, m, d), m in 1..12, counted from
\* 1970-01-01 (ECMAScript MakeDay)
DaysFromCivil(y, m, d) ==
    LET yy == IF m <= 2 THEN y - 1 ELSE y
        era == yy \div 400
        yoe == yy - era * 400
        mp == IF m > 2 THEN m - 3 ELSE m + 9
        doy == (153 * mp + 2) \div 5 + d - 1
        doe == yoe * 365 + yoe \div 4 - yoe \div 100 + doy
    IN  era * 146097 + doe - 719468

\* the calendar date of day number z (ECMAScript YearFromTime, MonthFromTime,
\* DateFromTime)
CivilFromDays(z) ==
    LET zz == z + 719468
        era == zz \div 146097
        doe == zz - era * 146097
        yoe == (doe - doe \div 1460 + doe \div 36524 - doe \div 146096) \div 365
        doy == doe - (365 * yoe + yoe \div 4 - yoe \div 100)
        mp == (5 * doy + 2) \div 153
        d == doy - (153 * mp + 2) \div 5 + 1
        m == IF mp < 10 THEN mp + 3 ELSE mp - 9
    IN  CalendarDate(IF m <= 2 THEN yoe + era * 400 + 1 ELSE yoe + era * 400, m, d)

\* the days on either side of 1970-01-01 that a Date can hold (TimeClip)
\* 8.64e15 ms / 86400000 ms
MaxDays == 100000000

\* new Date(year, monthIndex, day): a year from 0 to 99 stands for 1900 + year,
\* a monthIndex outside 0..11 and a day outside the month carry into the
\* neighbouring months and years, and a time out of range is an Invalid Date
NewDate(year, monthIndex, day) ==
    LET yr == IF year \in 0..99 THEN 1900 + year ELSE year
        ym == yr + monthIndex \div 12
        mn == monthIndex % 12
        days == DaysFromCivil(ym, mn + 1, 1) + day - 1
    IN  IF days > MaxDays \/ days < 0 - MaxDays
        THEN InvalidDate
        ELSE CivilFromDays(days)

\* parseDate(str), engine being what new Date(str) gives
ParseDate(str, engine) ==
    IF str = NoString \/ str = <<>> THEN NullDate
    ELSE LET parts == SplitAt(str, "/")
             month == ParseInt(parts[1])
             day == ParseInt(parts[2])
             year == ParseInt(parts[3])
         IN  IF Len(parts) = 3 /\ ~month.nan /\ ~day.nan /\ ~year.nan
             THEN NewDate(year.n, month.n - 1, day.n)
             ELSE IF engine.valid THEN engine ELSE NullDate

\* the characters of the month and day parts
DateChars == {"0", "1", "2", "3", "9", "a"}

PartTexts == UNION {[1..k -> DateChars] : k \in 0..MaxPartLen}

YearTexts ==
    { <<"2", "0", "2", "4">>, <<"2", "0", "2", "3">>, <<"1", "9", "0", "0">>,
      <<"0", "0", "5", "0">>, <<"2", "4">>, <<"3", "0", "0", "0", "0", "0">> }

\* strings with no "/", fewer or more than three parts
OtherDateTexts ==
    { <<>>, NoString,
      <<"n", "o", "t", "-", "a", "-", "d", "a", "t", "e">>,
      <<"3", "/", "4">>,
      <<"1", "/", "2", "/", "3", "/", "4">> }

DateInputs ==
    {m \o <<"/">> \o d \o <<"/">> \o y :
        m \in PartTexts, d \in PartTexts, y \in YearTexts}
    \cup OtherDateTexts

\* what new Date(str) may be for a string that is no ISO date: an Invalid
\* Date, or a date the engine makes of it
EngineDates == {InvalidDate, CalendarDate(2001, 1, 1)}

\* parseDate(str) entered
DateStart(str, engine) ==
    /\ dateStr = str
    /\ dateEngine = engine
    /\ dateResult = NullDate
    /\ datePc = "call"

\* parseDate not in use
DateIdle ==
    /\ dateStr = <<>>
    /\ dateEngine = InvalidDate
    /\ dateResult = NullDate
    /\ datePc = "idle"

\* parseDate returns
DateReturn ==
    /\ datePc = "call"
    /\ dateResult' = ParseDate(dateStr, dateEngine)
    /\ datePc' = "done"
    /\ UNCHANGED <<dateStr, dateEngine>>

----------------------------------------------------------------------------
(* DataService.normalizeCategory, DataService.calculateExpenseSummary,
   App.renderAll and App.filterExpenses *)

UpperCase ==
    <<"A", "B", "C", "D", "E", "F", "G", "H", "I", "J", "K", "L", "M",
      "N", "O", "P", "Q", "R", "S", "T", "U", "V", "W", "X", "Y", "Z">>
LowerCase ==
    <<"a", "b", "c", "d", "e", "f", "g", "h", "i", "j", "k", "l", "m",
      "n", "o", "p", "q", "r", "s", "t", "u", "v", "w", "x", "y", "z">>

\* the lower-case letter of each upper-case letter
LowerCaseOf ==
    [c \in {UpperCase[n] : n \in 1..Len(UpperCase)} |->
        LowerCase[CHOOSE n \in 1..Len(UpperCase) : UpperCase[n] = c]]

\* String.prototype.toLowerCase
ToLowerCase(s) ==
    [k \in 1..Len(s) |->
        IF s[k] \in DOMAIN LowerCaseOf THEN LowerCaseOf[s[k]] ELSE s[k]]

\* String.prototype.startsWith
StartsWith(s, prefix) ==
    Len(s) >= Len(prefix) /\ SubSeq(s, 1, Len(prefix)) = prefix

HardCost == <<"H", "a", "r", "d", " ", "C", "o", "s", "t">>
SoftCost == <<"S", "o", "f", "t", " ", "C", "o", "s", "t">>
Terreno == <<"T", "e", "r", "r", "e", "n", "o">>

\* normalizeCategory(cat) without the trim of its first line
NormalizeCategoryNoTrim(cat) ==
    IF cat = NoString \/ cat = <<>> THEN <<>>
    ELSE LET lower == ToLowerCase(cat)
         IN  IF StartsWith(lower, <<"h", "a", "r", "d">>) THEN HardCost
             ELSE IF StartsWith(lower, <<"s", "o", "f", "t">>) THEN SoftCost
             ELSE IF StartsWith(lower, <<"t", "e", "r", "r", "e", "n", "o">>)
             THEN Terreno
             ELSE Trim(cat)

\* normalizeCategory(cat)
NormalizeCategory(cat) ==
    IF cat = NoString \/ cat = <<>> THEN <<>>
    ELSE LET lower == ToLowerCase(Trim(cat))
         IN  IF StartsWith(lower, <<"h", "a", "r", "d">>) THEN HardCost
             ELSE IF StartsWith(lower, <<"s", "o", "f", "t">>) THEN SoftCost
             ELSE IF StartsWith(lower, <<"t", "e", "r", "r", "e", "n", "o">>)
             THEN Terreno
             ELSE Trim(cat)

\* the values a property of summary.byCategory or summary.bySubcategory can
\* have: undefined, a number, a function inherited from Object.prototype, or
\* the string that adding a number to a function gives
UndefinedValue == [type |-> "undefined", n |-> 0, text |-> <<>>]
NumberValue(n) == [type |-> "number", n |-> n, text |-> <<>>]
FunctionValue == [type |-> "function", n |-> 0, text |-> <<>>]
\* the source text of the inherited function followed by the decimal text of
\* each amount of text
StringValue(text) == [type |-> "string", n |-> 0, text |-> text]

\* {}
EmptyObject == [k \in {} |-> UndefinedValue]

\* property names that {} inherits from Object.prototype
ObjectPrototypeKeys ==
    { <<"c", "o", "n", "s", "t", "r", "u", "c", "t", "o", "r">>,
      <<"t", "o", "S", "t", "r", "i", "n", "g">>,
      <<"v", "a", "l", "u", "e", "O", "f">> }

\* obj[key]
GetProperty(obj, key) ==
    IF key \in DOMAIN obj THEN obj[key]
    ELSE IF key \in ObjectPrototypeKeys THEN FunctionValue
    ELSE UndefinedValue

\* !!v
IsTruthy(v) ==
    \/ v.type \in {"function", "string"}
    \/ v.type = "number" /\ v.n # 0

\* v + amount
Plus(v, amount) ==
    IF v.type = "number" THEN NumberValue(v.n + amount)
    ELSE StringValue(v.text \o <<amount>>)

\* if (!obj[key]) obj[key] = 0;  obj[key] += amount;
Accumulate(obj, key, amount) ==
    LET current == GetProperty(obj, key)
        base == IF IsTruthy(current) THEN current ELSE NumberValue(0)
    IN  [k \in DOMAIN obj \cup {key} |->
            IF k = key THEN Plus(base, amount) ELSE obj[k]]

\* `${catKey}|${subcategory}`
SubKey(catKey, subcategory) == catKey \o <<"|">> \o subcategory

\* the summary after the first n expenses of the for loop
RECURSIVE SummaryUpTo(_, _)
SummaryUpTo(list, n) ==
    IF n = 0
    THEN [total |-> 0, byCategory |-> EmptyObject, bySubcategory |-> EmptyObject]
    ELSE LET summary == SummaryUpTo(list, n - 1)
             exp == list[n]
             catKey == NormalizeCategory(exp.category)
         IN  [total |-> summary.total + exp.amount,
              byCategory |-> Accumulate(summary.byCategory, catKey, exp.amount),
              bySubcategory |->
                  Accumulate(summary.bySubcategory,
                             SubKey(catKey, exp.subcategory), exp.amount)]

\* calculateExpenseSummary(expenses)
CalculateExpenseSummary(list) == SummaryUpTo(list, Len(list))

\* the value 'all' of the filter controls, and the empty value of a date
\* control
FilterAll == <<"a", "l", "l">>
NoFilterDate == NullDate

\* getTime() of a Date at local midnight, in hours, the zone being tz hours
\* ahead of UTC
LocalMidnight(d, tz) == DaysFromCivil(d.y, d.m, d.d) * 24 - tz

\* new Date("YYYY-MM-DD").getTime(): midnight UTC, in hours
UTCMidnight(d) == DaysFromCivil(d.y, d.m, d.d) * 24

\* to.setHours(23, 59, 59, 999): the last hour of the local day that the
\* instant t falls in
EndOfLocalDay(t, tz) == ((t + tz) \div 24) * 24 + 23 - tz

\* e.dateObj && e.dateObj >= from
OnOrAfter(e, from, tz) ==
    /\ ~e.dateObj.null
    /\ e.dateObj.valid
    /\ LocalMidnight(e.dateObj, tz) >= UTCMidnight(from)

\* e.dateObj && e.dateObj <= to
OnOrBefore(e, to, tz) ==
    /\ ~e.dateObj.null
    /\ e.dateObj.valid
    /\ LocalMidnight(e.dateObj, tz) <= EndOfLocalDay(UTCMidnight(to), tz)

\* the four filters of filterExpenses
Filtered(list, category, subcategory, dateFrom, dateTo, tz) ==
    SelectSeq(list, LAMBDA e :
        /\ category # FilterAll => NormalizeCategory(e.category) = category
        /\ subcategory # FilterAll => e.subcategory = subcategory
        /\ dateFrom # NoFilterDate => OnOrAfter(e, dateFrom, tz)
        /\ dateTo # NoFilterDate => OnOrBefore(e, dateTo, tz))

\* the comparator of filtered.sort: date descending, no date last; a result
\* of NaN counts as 0
SortCompare(a, b, tz) ==
    IF a.dateObj.null /\ b.dateObj.null THEN 0
    ELSE IF a.dateObj.null THEN 1
    ELSE IF b.dateObj.null THEN -1
    ELSE IF ~a.dateObj.valid \/ ~b.dateObj.valid THEN 0
    ELSE LocalMidnight(b.dateObj, tz) - LocalMidnight(a.dateObj, tz)

\* e put into the sorted list s behind every element that does not follow it
InsertSorted(s, e, tz) ==
    LET after == {j \in 1..Len(s) : SortCompare(s[j], e, tz) > 0}
        at == IF after = {} THEN Len(s) + 1
              ELSE CHOOSE j \in after : \A k \in after : j <= k
    IN  SubSeq(s, 1, at - 1) \o <<e>> \o SubSeq(s, at, Len(s))

\* Array.prototype.sort, which is stable, on the first n elements
RECURSIVE SortedUpTo(_, _, _)
SortedUpTo(list, n, tz) ==
    IF n = 0 THEN <<>>
    ELSE InsertSorted(SortedUpTo(list, n - 1, tz), list[n], tz)

\* the sum that filterExpenses shows under the table
RECURSIVE AmountsUpTo(_, _)
AmountsUpTo(list, n) ==
    IF n = 0 THEN 0 ELSE AmountsUpTo(list, n - 1) + list[n].amount

\* the labels of column B of the ledger
Categories ==
    { <<" ", "H", "a", "r", "d", " ", "C", "o", "s", "t", "s">>,
      <<"h", "a", "r", "d", " ", "c", "o", "s", "t">>,
      <<"S", "O", "F", "T">>,
      <<"T", "e", "r", "r", "e", "n", "o", " ">>,
      <<"x", "H", "a", "r", "d">>,
      <<"A", " ">>,
      <<"A", "|", "B">>,
      <<"c", "o", "n", "s", "t", "r", "u", "c", "t", "o", "r">> }

Subcategories == { <<"C">>, <<"B", "|", "C">> }

Amounts == {50, 100}

\* the dateObj of the expenses
ExpenseDates == {NullDate}

\* the Expense records that parseExpenses builds (date, the text of dateObj,
\* left out)
ExpensePool ==
    [dateObj : ExpenseDates, category : Categories,
     subcategory : Subcategories, amount : Amounts]

ExpenseLists == UNION {[1..n -> ExpensePool] : n \in 0..MaxExpenses}

\* hours that local time is ahead of UTC: Mexico City
TimeZones == {-6}

\* the options of #filter-category
CategoryOptions == {FilterAll, HardCost, SoftCost, Terreno}

\* filterExpenses()
FilterExpenses(category, subcategory, dateFrom, dateTo) ==
    LET filtered == Filtered(expenses, category, subcategory, dateFrom,
                             dateTo, timeZone)
        sorted == SortedUpTo(filtered, Len(filtered), timeZone)
    IN  /\ tableRows' = sorted
        /\ noExpenses' = (filtered = <<>>)
        /\ tableTotal' = IF filtered = <<>> THEN tableTotal
                         ELSE AmountsUpTo(sorted, Len(sorted))

\* App.data holds the expenses, nothing rendered yet
ExpStart(list, tz) ==
    /\ expenses = list
    /\ timeZone = tz
    /\ expSummary = SummaryUpTo(<<>>, 0)
    /\ filterCategory = FilterAll
    /\ filterSubcategory = FilterAll
    /\ filterDateFrom = NoFilterDate
    /\ filterDateTo = NoFilterDate
    /\ tableRows = <<>>
    /\ tableTotal = 0
    /\ noExpenses = FALSE
    /\ expPc = "loaded"

\* no expenses in use
ExpIdle ==
    /\ expenses = <<>>
    /\ timeZone = 0
    /\ expSummary = SummaryUpTo(<<>>, 0)
    /\ filterCategory = FilterAll
    /\ filterSubcategory = FilterAll
    /\ filterDateFrom = NoFilterDate
    /\ filterDateTo = NoFilterDate
    /\ tableRows = <<>>
    /\ tableTotal = 0
    /\ noExpenses = FALSE
    /\ expPc = "idle"

\* renderAll: the summary, and renderExpensesTable, which rebuilds the
\* options of #filter-subcategory and calls filterExpenses
RenderAll ==
    /\ expPc = "loaded"
    /\ expSummary' = CalculateExpenseSummary(expenses)
    /\ filterSubcategory' = FilterAll
    /\ FilterExpenses(filterCategory, FilterAll, filterDateFrom, filterDateTo)
    /\ expPc' = "rendered"
    /\ UNCHANGED <<expenses, timeZone, filterCategory, filterDateFrom, filterDateTo>>

\* change of #filter-category
ChangeFilterCategory(category) ==
    /\ expPc = "rendered"
    /\ category # filterCategory
    /\ filterCategory' = category
    /\ FilterExpenses(category, filterSubcategory, filterDateFrom, filterDateTo)
    /\ UNCHANGED <<expenses, timeZone, expSummary, filterSubcategory,
                   filterDateFrom, filterDateTo, expPc>>

\* change of #filter-date-from
ChangeFilterDateFrom(dateFrom) ==
    /\ expPc = "rendered"
    /\ dateFrom # filterDateFrom
    /\ filterDateFrom' = dateFrom
    /\ FilterExpenses(filterCategory, filterSubcategory, dateFrom, filterDateTo)
    /\ UNCHANGED <<expenses, timeZone, expSummary, filterCategory,
                   filterSubcategory, filterDateTo, expPc>>

\* change of #filter-date-to
ChangeFilterDateTo(dateTo) ==
    /\ expPc = "rendered"
    /\ dateTo # filterDateTo
    /\ filterDateTo' = dateTo
    /\ FilterExpenses(filterCategory, filterSubcategory, filterDateFrom, dateTo)
    /\ UNCHANGED <<expenses, timeZone, expSummary, filterCategory,
                   filterSubcategory, filterDateFrom, expPc>>

\* the dateObj of the expenses of a ledger with dates: none, the Invalid
\* Date of a year out of range, and two days
TableDates ==
    {NullDate, InvalidDate, CalendarDate(2024, 3, 4), CalendarDate(2024, 3, 5)}

TablePool ==
    [dateObj : TableDates, category : {HardCost}, subcategory : {<<"C">>},
     amount : Amounts]

TableLists == UNION {[1..n -> TablePool] : n \in 0..MaxExpenses}

\* the values of the date controls
FilterDates == {NoFilterDate, CalendarDate(2024, 3, 4), CalendarDate(2024, 3, 5)}

\* clearFilters()
ClearFilters ==
    /\ expPc = "rendered"
    /\ \/ filterCategory # FilterAll
       \/ filterDateFrom # NoFilterDate
       \/ filterDateTo # NoFilterDate
    /\ filterCategory' = FilterAll
    /\ filterSubcategory' = FilterAll
    /\ filterDateFrom' = NoFilterDate
    /\ filterDateTo' = NoFilterDate
    /\ FilterExpenses(FilterAll, FilterAll, NoFilterDate, NoFilterDate)
    /\ UNCHANGED <<expenses, timeZone, expSummary, expPc>>

----------------------------------------------------------------------------
(* The sheets: rows of cells as parseCSV returns them *)

\* rows[idx], idx counted from 0 as in the code; <<>> stands for a missing
\* row as well as for a row without cells, both without any cell
RowAt(sheet, idx) ==
    IF idx >= 0 /\ idx < Len(sheet) THEN sheet[idx + 1] ELSE <<>>

\* rows[idx] is undefined
NoRow(sheet, idx) == idx < 0 \/ idx >= Len(sheet)

\* row[k], k counted from 0; undefined past the end of the row
CellAt(row, k) == IF k >= 0 /\ k < Len(row) THEN row[k + 1] ELSE NoString

\* a || b for strings
OrElse(a, b) == IF a = NoString \/ a = <<>> THEN b ELSE a

\* the exception that a method call on undefined raises
TypeError == <<"TypeError">>

\* x.trim()
MethodTrim(x) == IF x = NoString THEN TypeError ELSE Trim(x)

----------------------------------------------------------------------------
(* DataService.parseBudget *)

CASA_1 == <<"C", "a", "s", "a", " ", "1">>
CASA_2 == <<"C", "a", "s", "a", " ", "2">>
TOTAL_HARD == <<"T", "o", "t", "a", "l", " ", "d", "e", " ", "H", "a", "r", "d", " ",
      "C", "o", "s", "t">>
CONSTRUCCION == <<"C", "o", "n", "s", "t", "r", "u", "c", "c", "i", "ó", "n">>
softLabels ==
    << <<"F", "e", "e", " ", "A", "d", "m", "i", "n", "i", "s", "t", "r",
          "a", "c", "i", "o", "n">>,
        <<"A", "r", "q", "u", "i", "t", "e", "c", "t", "u", "r", "a">>,
        <<"T", "r", "á", "m", "i", "t", "e", "s", " ", "/", " ", "P", "e",
          "r", "m", "i", "s", "o", "s">>,
        <<"L", "e", "g", "a", "l", " ", "/", " ", "F", "i", "s", "c", "a",
          "l">>,
        <<"I", "n", "g", "e", "n", "i", "e", "r", "í", "a", "s", " ", "/",
          " ", "E", "s", "t", "u", "d", "i", "o", "s">>,
        <<"I", "V", "A", " ", "S", "o", "f", "t", " ", "C", "o", "s", "t">> >>
TOTAL_SOFT == <<"T", "o", "t", "a", "l", " ", "d", "e", " ", "S", "o", "f", "t", " ",
      "C", "o", "s", "t">>
terrenoLabels ==
    << <<"L", "o", "t", "e", " ", "1">>,
       <<"L", "o", "t", "e", " ", "2">>,
       <<"I", "S", "A", "I">> >>
VALOR_TERRENO == <<"V", "a", "l", "o", "r", " ", "d", "e", " ", "T", "e", "r", "r", "e",
      "n", "o">>

\* r && r[1] && r[1].trim().toLowerCase().startsWith(label.toLowerCase())
LabelMatches(row, label) ==
    LET cell == CellAt(row, 1)
    IN  /\ cell # NoString
        /\ cell # <<>>
        /\ StartsWith(ToLowerCase(Trim(cell)), ToLowerCase(label))

\* findRow(label) returning the last matching row instead of the first
FindRowLast(sheet, label) ==
    LET hits == {idx \in 0..(Len(sheet) - 1) : LabelMatches(RowAt(sheet, idx), label)}
    IN  IF hits = {} THEN -1
        ELSE CHOOSE idx \in hits : \A other \in hits : idx >= other

\* findRow(label): rows.findIndex
FindRow(sheet, label) ==
    LET hits == {idx \in 0..(Len(sheet) - 1) : LabelMatches(RowAt(sheet, idx), label)}
    IN  IF hits = {} THEN -1
        ELSE CHOOSE idx \in hits : \A other \in hits : idx <= other

\* findRowFrom(label, startIdx)
FindRowFrom(sheet, label, startIdx) ==
    LET hits == {idx \in startIdx..(Len(sheet) - 1) :
                    idx >= 0 /\ LabelMatches(RowAt(sheet, idx), label)}
    IN  IF hits = {} THEN -1
        ELSE CHOOSE idx \in hits : \A other \in hits : idx <= other

\* the house pushed for idx, if any
HouseAt(sheet, idx) ==
    IF idx >= 0
    THEN LET row == RowAt(sheet, idx)
         IN  << [name |-> MethodTrim(OrElse(CellAt(row, 1), <<>>)),
                 sqm |-> ParseNumber(CellAt(row, 5)),
                 pricePerSqm |-> ParseNumber(CellAt(row, 7)),
                 totalCommercial |-> ParseNumber(CellAt(row, 9)),
                 netIncome |-> ParseNumber(CellAt(row, 10))] >>
    ELSE <<>>

\* the value of column K of the first row of the sheet, whatever the label
AmountOfFirstRow(sheet, label) ==
    IF Len(sheet) > 0
    THEN <<ParseNumber(CellAt(RowAt(sheet, 0), 10))>>
    ELSE <<>>

\* the value of column K of the row of label, if there is one: a property
\* that is set, <<value>>, or left unset, <<>>
AmountOf(sheet, label) ==
    LET idx == FindRow(sheet, label)
    IN  IF idx >= 0
        THEN <<ParseNumber(CellAt(RowAt(sheet, idx), 10))>>
        ELSE <<>>

\* the items pushed for the first n labels
RECURSIVE ItemsUpTo(_, _, _)
ItemsUpTo(sheet, labels, n) ==
    IF n = 0 THEN <<>>
    ELSE LET idx == FindRow(sheet, labels[n])
             row == RowAt(sheet, idx)
         IN  ItemsUpTo(sheet, labels, n - 1) \o
             (IF idx >= 0
              THEN << [name |-> MethodTrim(OrElse(CellAt(row, 1), labels[n])),
                       amount |-> ParseNumber(CellAt(row, 10))] >>
              ELSE <<>>)

\* parseBudget(rows)
ParseBudget(sheet) ==
    [houses |-> HouseAt(sheet, FindRow(sheet, CASA_1)) \o
                HouseAt(sheet, FindRow(sheet, CASA_2)),
     hardCosts |-> [total |-> AmountOf(sheet, TOTAL_HARD),
                    construction |-> AmountOf(sheet, CONSTRUCCION)],
     softCosts |-> [items |-> ItemsUpTo(sheet, softLabels, Len(softLabels)),
                    total |-> AmountOf(sheet, TOTAL_SOFT)],
     terreno |-> [items |-> ItemsUpTo(sheet, terrenoLabels, Len(terrenoLabels)),
                  total |-> AmountOf(sheet, VALOR_TERRENO)]]

\* a row of the budget sheet: the label in column B, and numbers in columns
\* F, H, J and K
BudgetRow(label, amount) ==
    <<<<>>, label, <<>>, <<>>, <<>>, <<"7">>, <<>>, <<"8">>, <<>>, <<"9">>, amount>>

\* rows that the budget sheet is made of
BudgetRows ==
    { BudgetRow(CASA_1, <<"1", "0", "0">>),
      BudgetRow(<<" ", "c", "a", "s", "a", " ", "1", "0", " ">>, <<"2">>),
      BudgetRow(TOTAL_HARD, <<"$", "1", ",", "2">>),
      <<<<>>, <<"t", "o", "t", "a", "l", " ", "d", "e", " ", "h", "a", "r",
            "d", " ", "c", "o", "s", "t", " ", "x">>>>,
      BudgetRow(<<"L", "o", "t", "e", " ", "1">>, <<"3">>),
      BudgetRow(<<"N", "o", "t", "a", "s">>, <<"4">>),
      <<<<>>>> }

\* the labels that parseBudget looks for
KnownLabels ==
    {CASA_1, CASA_2, TOTAL_HARD, CONSTRUCCION, TOTAL_SOFT, VALOR_TERRENO}
    \cup {softLabels[n] : n \in 1..Len(softLabels)}
    \cup {terrenoLabels[n] : n \in 1..Len(terrenoLabels)}

\* no model parsed yet
NoModel == [none |-> TRUE]

\* no edit of the sheet yet
NoEdit == "none"

\* sheets of at most n rows drawn from pool
Sheets(pool, n) == UNION {[1..k -> pool] : k \in 0..n}

\* the sheet with row put in front of the row of index at (0-based)
Inserted(sheet, at, row) ==
    SubSeq(sheet, 1, at) \o <<row>> \o SubSeq(sheet, at + 1, Len(sheet))

\* the sheet without the row of index at (0-based)
Deleted(sheet, at) ==
    SubSeq(sheet, 1, at) \o SubSeq(sheet, at + 2, Len(sheet))

\* fetchCSV has returned the rows of the sheet
SheetStart(sheet, engine) ==
    /\ sheetRows = sheet
    /\ sheetEngine = engine
    /\ parsedModel = NoModel
    /\ lastEdit = NoEdit
    /\ sheetPc = "fetched"

\* no sheet in use
SheetIdle ==
    /\ sheetRows = <<>>
    /\ sheetEngine = InvalidDate
    /\ parsedModel = NoModel
    /\ lastEdit = NoEdit
    /\ sheetPc = "idle"

\* a row is inserted in the spreadsheet, which is then fetched again
InsertRow(at, row, max) ==
    /\ sheetPc = "parsed"
    /\ Len(sheetRows) < max
    /\ at \in 0..Len(sheetRows)
    /\ sheetRows' = Inserted(sheetRows, at, row)
    /\ lastEdit' = "insert"
    /\ parsedModel' = NoModel
    /\ sheetPc' = "fetched"
    /\ UNCHANGED sheetEngine

\* a row is deleted from the spreadsheet, which is then fetched again
DeleteRow(at) ==
    /\ sheetPc = "parsed"
    /\ at \in 0..(Len(sheetRows) - 1)
    /\ lastEdit' = "delete"
    /\ sheetRows' = Deleted(sheetRows, at)
    /\ parsedModel' = NoModel
    /\ sheetPc' = "fetched"
    /\ UNCHANGED sheetEngine

\* fetchAllData parses the budget sheet
ParseBudgetSheet ==
    /\ sheetPc = "fetched"
    /\ parsedModel' = ParseBudget(sheetRows)
    /\ sheetPc' = "parsed"
    /\ UNCHANGED <<sheetRows, sheetEngine, lastEdit>>

----------------------------------------------------------------------------
(* DataService.parseExpenses *)

\* the expenses pushed for the rows of index 1 to n
RECURSIVE ExpensesUpTo(_, _, _)
ExpensesUpTo(sheet, engine, n) ==
    IF n <= 0 THEN <<>>
    ELSE LET row == RowAt(sheet, n)
             prior == ExpensesUpTo(sheet, engine, n - 1)
             dateText == MethodTrim(OrElse(CellAt(row, 0), <<>>))
             category == MethodTrim(OrElse(CellAt(row, 1), <<>>))
             subcategory == MethodTrim(OrElse(CellAt(row, 2), <<>>))
             amount == ParseNumber(CellAt(row, 4))
         IN  IF Len(row) < 5 THEN prior
             ELSE IF category = <<>> /\ amount = Zero THEN prior
             ELSE prior \o << [date |-> dateText,
                               dateObj |-> ParseDate(dateText, engine),
                               category |-> category,
                               subcategory |-> subcategory,
                               amount |-> amount] >>

\* parseExpenses, had its loop begun at the header row
ParseExpensesWithHeader(sheet, engine) ==
    ExpensesUpTo(<< <<>> >> \o sheet, engine, Len(sheet))

\* parseExpenses(rows), engine being what new Date(str) gives for a string
\* that is no date
ParseExpenses(sheet, engine) == ExpensesUpTo(sheet, engine, Len(sheet) - 1)

\* rows that the ledger is made of
LedgerRows ==
    { << <<"3", "/", "4", "/", "2", "0", "2", "4">>,
        <<"H", "a", "r", "d", " ", "C", "o", "s", "t">>,
        <<"O", "b", "r", "a">>,
        <<>>,
        <<"5", "0">> >>,
      << <<>>,
        <<" ">>,
        <<>>,
        <<>>,
        <<"0">> >>,
      << <<>>,
        <<>>,
        <<>>,
        <<>>,
        <<"a", "b", "c">> >>,
      << <<"x">>,
        <<"S", "o", "f", "t">>,
        <<"S", "u", "b">>,
        <<>>,
        <<"a", "b", "c">> >>,
      << <<>>,
        <<>>,
        <<>>,
        <<>>,
        <<"$", "1", ",", "2">> >>,
      << <<"3", "/", "4", "/", "2", "0", "2", "4">>,
        <<"H", "a", "r", "d", " ", "C", "o", "s", "t">>,
        <<"O", "b", "r", "a">>,
        <<"x">> >>,
      << <<"1", "/", "1", "/", "3", "0", "0", "0", "0", "0">>,
        <<"T", "e", "r", "r", "e", "n", "o">>,
        <<>>,
        <<>>,
        <<"7">>,
        <<"x">> >>,
      << <<>> >> }

\* fetchAllData parses the ledger
ParseLedgerSheet ==
    /\ sheetPc = "fetched"
    /\ parsedModel' = ParseExpenses(sheetRows, sheetEngine)
    /\ sheetPc' = "parsed"
    /\ UNCHANGED <<sheetRows, sheetEngine, lastEdit>>

----------------------------------------------------------------------------
(* DataService.parsePercent, DataService.parseCapital *)

\* the characters that /[%\s]/g removes
PercentStripped == {"%", SP, LF, CR, "\t"}

ParsePercent(str) ==
    IF str = NoString \/ str = <<>> THEN Zero
    ELSE LET cleaned == Trim(SelectSeq(str, LAMBDA c : c \notin PercentStripped))
             num == ParseFloat(cleaned)
         IN  IF num = NaN THEN Zero ELSE num

INGRESOS_TOTALES == <<"I", "n", "g", "r", "e", "s", "o", "s", " ", "T", "o", "t", "a",
        "l", "e", "s">>
COSTO_DEL_PROYECTO == <<"C", "o", "s", "t", "o", " ", "d", "e", "l", " ", "P", "r", "o",
        "y", "e", "c", "t", "o">>
UTILIDAD == <<"U", "t", "i", "l", "i", "d", "a", "d">>
MARGEN_DE_UTILIDAD == <<"M", "a", "r", "g", "e", "n", " ", "d", "e", " ", "U", "t", "i",
        "l", "i", "d", "a", "d">>
CAPITAL_APORTADO == <<"C", "a", "p", "i", "t", "a", "l", " ", "A", "p", "o", "r", "t",
        "a", "d", "o">>
RETORNO_TOTAL == <<"R", "e", "t", "o", "r", "n", "o", " ", "T", "o", "t", "a", "l">>
ROI == <<"R", "O", "I">>
MULTIPLO_DE_CAPITAL == <<"M", "ú", "l", "t", "i", "p", "l", "o", " ", "d", "e", " ", "C",
        "a", "p", "i", "t", "a", "l">>

\* the rows the investors are read from: indices 6 to 10
FirstInvestorRow == 6
LastInvestorRow == 10

\* { amount, pct } of the row of index idx, unset when there is no such row
UseAt(sheet, idx) ==
    IF NoRow(sheet, idx) THEN <<>>
    ELSE << [amount |-> ParseNumber(CellAt(RowAt(sheet, idx), 2)),
             pct |-> ParsePercent(CellAt(RowAt(sheet, idx), 3))] >>

\* InvestorsFrom, had the loop no bound but the end of the sheet
RECURSIVE InvestorsToTheEnd(_, _)
InvestorsToTheEnd(sheet, idx) ==
    IF ~(idx < Len(sheet)) THEN <<>>
    ELSE LET row == RowAt(sheet, idx)
         IN  IF OrElse(CellAt(row, 0), <<>>) = <<>> \/ Trim(CellAt(row, 0)) = <<>>
             THEN <<>>
             ELSE << [name |-> MethodTrim(CellAt(row, 0)),
                      amount |-> ParseNumber(CellAt(row, 2))] >>
                  \o InvestorsToTheEnd(sheet, idx + 1)

\* the investors pushed from the row of index idx on
RECURSIVE InvestorsFrom(_, _)
InvestorsFrom(sheet, idx) ==
    IF ~(idx <= LastInvestorRow /\ idx < Len(sheet)) THEN <<>>
    ELSE LET row == RowAt(sheet, idx)
         IN  IF OrElse(CellAt(row, 0), <<>>) = <<>> \/ Trim(CellAt(row, 0)) = <<>>
             THEN <<>>
             ELSE << [name |-> MethodTrim(CellAt(row, 0)),
                      amount |-> ParseNumber(CellAt(row, 2))] >>
                  \o InvestorsFrom(sheet, idx + 1)

\* IndicatorAt, had it looked for the first row whose column A starts with
\* the label, as parseBudget does in column B
IndicatorByLabel(sheet, idx, percent, label) ==
    LET found == {k \in 0..(Len(sheet) - 1) :
                     LET cell == CellAt(RowAt(sheet, k), 0)
                     IN  /\ cell # NoString
                         /\ Len(cell) >= Len(label)
                         /\ SubSeq(cell, 1, Len(label)) = label}
    IN  IF found = {} THEN <<>>
        ELSE LET row == RowAt(sheet, CHOOSE k \in found : \A j \in found : k <= j)
             IN  << [value |-> IF percent THEN ParsePercent(CellAt(row, 2))
                               ELSE ParseNumber(CellAt(row, 2)),
                     label |-> Trim(CellAt(row, 0))] >>

\* the value and the label read from the row of index idx, unset when there
\* is no such row
IndicatorAt(sheet, idx, percent, label) ==
    IF NoRow(sheet, idx) THEN <<>>
    ELSE LET row == RowAt(sheet, idx)
         IN  << [value |-> IF percent THEN ParsePercent(CellAt(row, 2))
                           ELSE ParseNumber(CellAt(row, 2)),
                 label |-> MethodTrim(OrElse(CellAt(row, 0), label))] >>

ParseCapital(sheet) ==
    [ uses |-> [ hardCosts |-> UseAt(sheet, 1),
                 softCosts |-> UseAt(sheet, 2),
                 terreno |-> UseAt(sheet, 3) ],
      investors |-> InvestorsFrom(sheet, FirstInvestorRow),
      projectIndicators |->
          [ totalIncome |-> IndicatorAt(sheet, 12, FALSE, INGRESOS_TOTALES),
            projectCost |-> IndicatorAt(sheet, 13, FALSE, COSTO_DEL_PROYECTO),
            profit |-> IndicatorAt(sheet, 14, FALSE, UTILIDAD),
            margin |-> IndicatorAt(sheet, 15, TRUE, MARGEN_DE_UTILIDAD) ],
      capitalIndicators |->
          [ capitalContributed |-> IndicatorAt(sheet, 18, FALSE, CAPITAL_APORTADO),
            totalReturn |-> IndicatorAt(sheet, 19, FALSE, RETORNO_TOTAL),
            roi |-> IndicatorAt(sheet, 20, TRUE, ROI),
            capitalMultiple |-> IndicatorAt(sheet, 21, FALSE, MULTIPLO_DE_CAPITAL) ] ]

\* the capital sheet as published, with n investors
BlankRow == << <<>> >>
InvestorRows ==
    << << <<"A", "n", "a">>, <<>>, <<"$", "1", "0">> >>,
       << <<" ", "L", "u", "i", "s", " ">>, <<>>, <<"2", "0">> >>,
       << <<"E", "v", "a">>, <<>>, <<"a", "b", "c">> >>,
       << <<"I", "v", "o">> >>,
       << <<"P", "a", "z">>, <<>>, <<"5">> >> >>

CapitalSheet(n) ==
    << << <<"U", "s", "o", "s">>, <<>>, <<"M", "o", "n", "t", "o">>, <<"%">> >>,
       << <<"H", "a", "r", "d", " ", "C", "o", "s", "t", "s">>, <<>>, <<"$", "1", "0", "0">>, <<"5", "0", "%">> >>,
       << <<"S", "o", "f", "t", " ", "C", "o", "s", "t", "s">>, <<>>, <<"2", "0">>, <<"1", "0", " ", "%">> >>,
       << <<"T", "e", "r", "r", "e", "n", "o">>, <<>>, <<"8", "0">>, <<"x">> >>,
       BlankRow,
       << <<"I", "n", "v", "e", "r", "s", "i", "o", "n", "i", "s", "t", "a",
          "s">> >> >>
    \o [k \in 1..5 |-> IF k <= n THEN InvestorRows[k] ELSE BlankRow]
    \o << << <<"I", "n", "d", "i", "c", "a", "d", "o", "r", "e", "s">> >>,
       << <<"I", "n", "g", "r", "e", "s", "o", "s", " ", "T", "o", "t", "a",
          "l", "e", "s">>, <<>>, <<"3", "0", "0">> >>,
       << <<>>, <<>>, <<"2", "0", "0">> >>,
       << <<"U", "t", "i", "l", "i", "d", "a", "d">>, <<>>, <<"1", "0", "0">> >>,
       << <<"M", "a", "r", "g", "e", "n", " ", "d", "e", " ", "U", "t", "i",
          "l", "i", "d", "a", "d">>, <<>>, <<"3", "3", ".", "3", "%">> >>,
       BlankRow,
       << <<"C", "a", "p", "i", "t", "a", "l">> >>,
       << <<"C", "a", "p", "i", "t", "a", "l", " ", "A", "p", "o", "r", "t",
          "a", "d", "o">>, <<>>, <<"2", "0", "0">> >>,
       << <<"R", "e", "t", "o", "r", "n", "o", " ", "T", "o", "t", "a", "l">>, <<>>, <<"a", "b", "c">> >>,
       << <<"R", "O", "I">>, <<>>, <<"5", "0", "%">> >>,
       << <<"M", "ú", "l", "t", "i", "p", "l", "o", " ", "d", "e", " ", "C",
          "a", "p", "i", "t", "a", "l">>, <<>>, <<"1", ".", "5">> >> >>

\* the published sheet and the sheets cut short after any row
CapitalSheets ==
    { SubSeq(CapitalSheet(n), 1, k) :
          n \in 0..MaxInvestors, k \in 0..Len(CapitalSheet(0)) }

\* rows that an editor inserts into the capital sheet
CapitalRows ==
    { BlankRow, << <<"N", "o", "t", "a">>, <<>>, <<"5">> >>, << <<" ">>, <<>>, <<"9">> >> }

\* fetchAllData parses the capital sheet
ParseCapitalSheet ==
    /\ sheetPc = "fetched"
    /\ parsedModel' = ParseCapital(sheetRows)
    /\ sheetPc' = "parsed"
    /\ UNCHANGED <<sheetRows, sheetEngine, lastEdit>>

----------------------------------------------------------------------------
(* App.renderCategoryProgressSummary, App.renderBudgetCategory *)

\* a number that is a quotient of integers, den > 0
Quotient(num, den) == [num |-> num, den |-> den]

\* budget.hardCosts.total || 0, the total being <<n>> or unset
TotalOrZero(total) == IF total = <<>> THEN 0 ELSE total[1]

\* expSummary.byCategory[key] || 0
SpentOrZero(byCat, key) ==
    IF IsTruthy(GetProperty(byCat, key)) THEN GetProperty(byCat, key).n ELSE 0

\* budget > 0 ? (spent / budget) * 100 : 0, clamped where it is computed
ProgressPctClamped(budgetAmount, spentAmount) ==
    IF budgetAmount > 0
    THEN IF spentAmount > budgetAmount THEN Quotient(100, 1)
         ELSE Quotient(spentAmount * 100, budgetAmount)
    ELSE Quotient(0, 1)

\* budget > 0 ? (spent / budget) * 100 : 0
ProgressPct(budgetAmount, spentAmount) ==
    IF budgetAmount > 0 THEN Quotient(spentAmount * 100, budgetAmount)
    ELSE Quotient(0, 1)

\* pct > k
GreaterThan(pct, k) == pct.num > k * pct.den

\* Math.min(pct, 100)
MinWith100(pct) == IF GreaterThan(pct, 100) THEN Quotient(100, 1) ELSE pct

\* num.toFixed(1), in tenths: the nearest tenth, the larger in magnitude of
\* two that are as near
ToFixed1(pct) ==
    LET magnitude == IF pct.num < 0 THEN -pct.num ELSE pct.num
        tenths == (2 * 10 * magnitude + pct.den) \div (2 * pct.den)
    IN  IF pct.num < 0 THEN -tenths ELSE tenths

\* formatPercent(num): num is a number here, never NaN
FormatPercent(pct) == ToFixed1(pct)

\* the three categories that are rendered, with their keys and colours
ProgressCategories == {HardCost, SoftCost, Terreno}
CategoryColor(cat) ==
    IF cat = HardCost THEN "blue" ELSE IF cat = SoftCost THEN "purple" ELSE "orange"

\* the progress item of a category: the text of .progress-values, the class
\* and the width of .progress-bar-fill
ProgressItem(budgetAmount, spentAmount, color) ==
    LET pct == ProgressPct(budgetAmount, spentAmount)
    IN  [ text |-> FormatPercent(pct),
          colorClass |-> IF GreaterThan(pct, 100) THEN "red" ELSE color,
          width |-> MinWith100(pct) ]

\* the badge of a category: its text and class
Badge(budgetAmount, spentAmount) ==
    LET pct == ProgressPct(budgetAmount, spentAmount)
    IN  [ text |-> FormatPercent(pct),
          className |-> IF GreaterThan(pct, 100) THEN "badge-red"
                        ELSE IF GreaterThan(pct, 75) THEN "badge-orange"
                        ELSE "badge-green" ]

NoItem == [text |-> 0, colorClass |-> "none", width |-> Quotient(0, 1)]
NoBadge == [text |-> 0, className |-> "none"]

\* the totals of the budget and the sums of the expenses that are rendered
BudgetTotals == { <<>>, <<0>>, <<100>>, <<-100>> }
SpentValues == { UndefinedValue, NumberValue(50), NumberValue(101), NumberValue(250) }

ProgIdle ==
    /\ budgetTotals = [cat \in ProgressCategories |-> <<>>]
    /\ byCategory = [cat \in ProgressCategories |-> UndefinedValue]
    /\ categoryProgress = [cat \in ProgressCategories |-> NoItem]
    /\ budgetProgress = [cat \in ProgressCategories |-> NoItem]
    /\ badges = [cat \in ProgressCategories |-> NoBadge]
    /\ progPc = "idle"

\* renderAll: renderSummary calls renderCategoryProgressSummary, and
\* renderBudgetVsExecuted calls renderBudgetCategory for each category
RenderProgress ==
    /\ progPc = "loaded"
    /\ categoryProgress' =
          [cat \in ProgressCategories |->
              ProgressItem(TotalOrZero(budgetTotals[cat]),
                           SpentOrZero(byCategory, cat), CategoryColor(cat))]
    /\ budgetProgress' =
          [cat \in ProgressCategories |->
              ProgressItem(TotalOrZero(budgetTotals[cat]),
                           SpentOrZero(byCategory, cat), CategoryColor(cat))]
    /\ badges' =
          [cat \in ProgressCategories |->
              Badge(TotalOrZero(budgetTotals[cat]), SpentOrZero(byCategory, cat))]
    /\ progPc' = "rendered"
    /\ UNCHANGED <<budgetTotals, byCategory>>

----------------------------------------------------------------------------
(* Auth *)

\* the upper-case letter of each lower-case letter
UpperCaseOf ==
    [c \in {LowerCase[n] : n \in 1..Len(LowerCase)} |->
        UpperCase[CHOOSE n \in 1..Len(LowerCase) : LowerCase[n] = c]]

\* String.prototype.toUpperCase
ToUpperCase(s) ==
    [k \in 1..Len(s) |->
        IF s[k] \in DOMAIN UpperCaseOf THEN UpperCaseOf[s[k]] ELSE s[k]]

\* PROJECTS[key].password
PasswordOf ==
    [key \in PROJECT_KEYS |->
        IF key = "ARBOLEDAS" THEN <<"A", "R", "B", "O", "L", "E", "D", "A", "S">>
        ELSE <<"K", "e", "y", "2">>]

\* MatchingKeys, had the password typed not been trimmed
MatchingKeysNoTrim(password) ==
    {key \in PROJECT_KEYS : ToUpperCase(PasswordOf[key]) = ToUpperCase(password)}

\* the keys whose password is the one typed: password.trim().toUpperCase()
\* against PROJECTS[key].password.toUpperCase()
MatchingKeys(password) ==
    {key \in PROJECT_KEYS :
        ToUpperCase(PasswordOf[key]) = ToUpperCase(Trim(password))}

\* the first key of Object.keys(PROJECTS) among the keys
FirstKey(keys) == IF "ARBOLEDAS" \in keys THEN "ARBOLEDAS" ELSE "PROJECT_KEY"

\* sessionStorage.getItem('activeProject') when nothing is stored
NoItem_activeProject == "null"

\* Auth.login(password)
Login(password) ==
    /\ authCall' = [op |-> "login", password |-> password]
    /\ IF MatchingKeys(password) # {}
       THEN LET key == FirstKey(MatchingKeys(password))
            IN  /\ currentProject' = key
                /\ sessionStorage' = key
                /\ authResult' = key
                /\ loggedIn' = TRUE
       ELSE /\ authResult' = NoProject
            /\ UNCHANGED <<currentProject, sessionStorage, loggedIn>>

\* Auth.getSession()
GetSession ==
    /\ authCall' = [op |-> "getSession", password |-> <<>>]
    /\ IF sessionStorage # NoItem_activeProject /\ sessionStorage \in PROJECT_KEYS
       THEN /\ currentProject' = sessionStorage
            /\ authResult' = sessionStorage
       ELSE /\ authResult' = NoProject
            /\ UNCHANGED currentProject
    /\ UNCHANGED <<sessionStorage, loggedIn>>

\* Auth.logout()
Logout ==
    /\ authCall' = [op |-> "logout", password |-> <<>>]
    /\ currentProject' = NoProject
    /\ sessionStorage' = NoItem_activeProject
    /\ authResult' = NoProject
    /\ loggedIn' = FALSE

\* the page is loaded again in the same tab: the script starts afresh with
\* currentProject: null, the session storage of the tab is kept
ReloadPage ==
    /\ authCall' = [op |-> "reload", password |-> <<>>]
    /\ currentProject' = NoProject
    /\ authResult' = NoProject
    /\ UNCHANGED <<sessionStorage, loggedIn>>

\* the passwords typed: the configured passwords in several cases, words
\* that are no password, with and without white space around them
PasswordWords ==
    { <<"A", "R", "B", "O", "L", "E", "D", "A", "S">>,
      <<"a", "r", "b", "o", "l", "e", "d", "a", "s">>,
      <<"A", "r", "b", "o", "l", "e", "d", "a", "s">>,
      <<"a", "R", "B", "O", "L", "E", "D", "A", "s">>,
      <<"K", "E", "Y", "2">>,
      <<"k", "e", "y", "2">>,
      <<"K", "e", "y", "2">>,
      <<"k", "E", "y", "2">>,
      <<"A", "R", "B", "O", "L", "E", "D", "A">>,
      <<"A", "R", "B", "O", "L", "E", "D", "A", "S", "S">>,
      <<"A", "R", "B", "O", " ", "L", "E", "D", "A", "S">>,
      <<"K", "E", "Y">>,
      <<"x">>,
      <<>>,
      <<"n", "u", "l", "l">>,
      <<"P", "R", "O", "J", "E", "C", "T", "_", "K", "E", "Y">> }

Passwords ==
    { pre \o word \o post :
          pre \in {<<>>, <<SP>>}, word \in PasswordWords, post \in {<<>>, <<LF>>} }

AuthIdle ==
    /\ currentProject = NoProject
    /\ sessionStorage = NoItem_activeProject
    /\ authCall = [op |-> "none", password |-> <<>>]
    /\ authResult = NoProject
    /\ loggedIn = FALSE

----------------------------------------------------------------------------
(* Specifications *)

\* the dashboard before the page's first event
DashInit ==
    /\ now = 1
    /\ cache = [k \in PROJECT_KEYS |-> NoSnapshot]
    /\ cacheTimestamp = NullTimestamp
    /\ calls = <<>>
    /\ nCalls = 0
    /\ requests = 0
    /\ ret = NoReturn
    /\ project = NoProject
    /\ data = NoSnapshot
    /\ dashboard = FALSE
    /\ loadingState = FALSE
    /\ errorState = FALSE
    /\ mainContent = FALSE

Init == DashInit /\ AuthIdle /\ ProgIdle /\ SheetIdle /\ ExpIdle /\ CsvIdle /\ NumIdle /\ DateIdle

Next ==
    \/ \E p \in PROJECT_KEYS : HandleLogin(p) /\ UNCHANGED <<csvVars, numVars, dateVars, expVars, sheetVars, progVars, authVars>>
    \/ RefreshClick /\ UNCHANGED <<csvVars, numVars, dateVars, expVars, sheetVars, progVars, authVars>>
    \/ HandleLogout /\ UNCHANGED <<csvVars, numVars, dateVars, expVars, sheetVars, progVars, authVars>>
    \/ \E c \in 1..MaxCalls : SheetArrives(c) /\ UNCHANGED <<csvVars, numVars, dateVars, expVars, sheetVars, progVars, authVars>>
    \/ \E c \in 1..MaxCalls, e \in FetchErrors :
          SheetFails(c, e) /\ UNCHANGED <<csvVars, numVars, dateVars, expVars, sheetVars, progVars, authVars>>
    \/ Tick /\ UNCHANGED <<csvVars, numVars, dateVars, expVars, sheetVars, progVars, authVars>>

Spec == Init /\ [][Next]_vars

InitCSV == DashInit /\ AuthIdle /\ ProgIdle /\ SheetIdle /\ ExpIdle /\ NumIdle /\ DateIdle /\ \E text \in Texts(MaxLen) : CsvStart(text)

NextCSV ==
    \/ CsvIterate /\ UNCHANGED <<dsVars, appVars, numVars, dateVars, expVars, sheetVars, progVars, authVars>>
    \/ CsvFlush /\ UNCHANGED <<dsVars, appVars, numVars, dateVars, expVars, sheetVars, progVars, authVars>>

SpecCSV == InitCSV /\ [][NextCSV]_vars

\* the for loop runs to its end
LiveCSV == SpecCSV /\ WF_vars(NextCSV)

InitNum == DashInit /\ AuthIdle /\ ProgIdle /\ SheetIdle /\ ExpIdle /\ CsvIdle /\ DateIdle /\ \E str \in NumInputs : NumStart(str)

NextNum == NumReturn /\ UNCHANGED <<dsVars, appVars, csvVars, dateVars, expVars, sheetVars, progVars, authVars>>

SpecNum == InitNum /\ [][NextNum]_vars

InitDate ==
    /\ DashInit /\ AuthIdle /\ ProgIdle /\ SheetIdle /\ ExpIdle /\ CsvIdle /\ NumIdle
    /\ \E str \in DateInputs, engine \in EngineDates : DateStart(str, engine)

NextDate == DateReturn /\ UNCHANGED <<dsVars, appVars, csvVars, numVars, expVars, sheetVars, progVars, authVars>>

SpecDate == InitDate /\ [][NextDate]_vars

InitExp ==
    /\ DashInit /\ AuthIdle /\ ProgIdle /\ SheetIdle /\ CsvIdle /\ NumIdle /\ DateIdle
    /\ \E list \in ExpenseLists, tz \in TimeZones : ExpStart(list, tz)

NextExp ==
    \/ RenderAll /\ UNCHANGED <<dsVars, appVars, csvVars, numVars, dateVars, sheetVars, progVars, authVars>>
    \/ \E category \in CategoryOptions :
          ChangeFilterCategory(category)
          /\ UNCHANGED <<dsVars, appVars, csvVars, numVars, dateVars, sheetVars, progVars, authVars>>
    \/ ClearFilters /\ UNCHANGED <<dsVars, appVars, csvVars, numVars, dateVars, sheetVars, progVars, authVars>>

SpecExp == InitExp /\ [][NextExp]_vars

\* the expense table of a ledger with dates
InitTable ==
    /\ DashInit /\ AuthIdle /\ ProgIdle /\ CsvIdle /\ NumIdle /\ DateIdle /\ SheetIdle
    /\ \E list \in TableLists, tz \in TimeZones : ExpStart(list, tz)

NextTable ==
    \/ RenderAll
       /\ UNCHANGED <<dsVars, appVars, csvVars, numVars, dateVars, sheetVars, progVars, authVars>>
    \/ \E dateFrom \in FilterDates :
          ChangeFilterDateFrom(dateFrom)
          /\ UNCHANGED <<dsVars, appVars, csvVars, numVars, dateVars, sheetVars, progVars, authVars>>
    \/ \E dateTo \in FilterDates :
          ChangeFilterDateTo(dateTo)
          /\ UNCHANGED <<dsVars, appVars, csvVars, numVars, dateVars, sheetVars, progVars, authVars>>
    \/ ClearFilters
       /\ UNCHANGED <<dsVars, appVars, csvVars, numVars, dateVars, sheetVars, progVars, authVars>>

SpecTable == InitTable /\ [][NextTable]_vars

InitBudget ==
    /\ DashInit /\ AuthIdle /\ ProgIdle /\ ExpIdle /\ CsvIdle /\ NumIdle /\ DateIdle
    /\ \E sheet \in Sheets(BudgetRows, MaxRows) : SheetStart(sheet, InvalidDate)

NextBudget ==
    \/ ParseBudgetSheet
       /\ UNCHANGED <<dsVars, appVars, csvVars, numVars, dateVars, expVars, progVars, authVars>>
    \/ \E at \in 0..MaxRows, row \in BudgetRows :
          InsertRow(at, row, MaxRows)
          /\ UNCHANGED <<dsVars, appVars, csvVars, numVars, dateVars, expVars, progVars, authVars>>
    \/ \E at \in 0..MaxRows :
          DeleteRow(at)
          /\ UNCHANGED <<dsVars, appVars, csvVars, numVars, dateVars, expVars, progVars, authVars>>

SpecBudget == InitBudget /\ [][NextBudget]_vars

InitLedger ==
    /\ DashInit /\ AuthIdle /\ ProgIdle /\ ExpIdle /\ CsvIdle /\ NumIdle /\ DateIdle
    /\ \E sheet \in Sheets(LedgerRows, MaxRows), engine \in EngineDates :
          SheetStart(sheet, engine)

NextLedger ==
    \/ ParseLedgerSheet
       /\ UNCHANGED <<dsVars, appVars, csvVars, numVars, dateVars, expVars, progVars, authVars>>
    \/ \E at \in 0..MaxRows, row \in LedgerRows :
          InsertRow(at, row, MaxRows)
          /\ UNCHANGED <<dsVars, appVars, csvVars, numVars, dateVars, expVars, progVars, authVars>>
    \/ \E at \in 0..MaxRows :
          DeleteRow(at)
          /\ UNCHANGED <<dsVars, appVars, csvVars, numVars, dateVars, expVars, progVars, authVars>>

SpecLedger == InitLedger /\ [][NextLedger]_vars

InitCapital ==
    /\ DashInit /\ AuthIdle /\ ProgIdle /\ ExpIdle /\ CsvIdle /\ NumIdle /\ DateIdle
    /\ \E sheet \in CapitalSheets : SheetStart(sheet, NullDate)

\* one edit of the published sheet
NextCapital ==
    \/ ParseCapitalSheet
       /\ UNCHANGED <<dsVars, appVars, csvVars, numVars, dateVars, expVars, progVars, authVars>>
    \/ \E at \in 0..Len(sheetRows), row \in CapitalRows :
          /\ lastEdit = NoEdit
          /\ InsertRow(at, row, Len(sheetRows) + 1)
          /\ UNCHANGED <<dsVars, appVars, csvVars, numVars, dateVars, expVars, progVars, authVars>>
    \/ \E at \in 0..Len(sheetRows) :
          /\ lastEdit = NoEdit
          /\ DeleteRow(at)
          /\ UNCHANGED <<dsVars, appVars, csvVars, numVars, dateVars, expVars, progVars, authVars>>

SpecCapital == InitCapital /\ [][NextCapital]_vars

\* loadData has set this.data
InitProgress ==
    /\ DashInit /\ AuthIdle /\ ExpIdle /\ CsvIdle /\ NumIdle /\ DateIdle /\ SheetIdle
    /\ categoryProgress = [cat \in ProgressCategories |-> NoItem]
    /\ budgetProgress = [cat \in ProgressCategories |-> NoItem]
    /\ badges = [cat \in ProgressCategories |-> NoBadge]
    /\ budgetTotals \in [ProgressCategories -> BudgetTotals]
    /\ byCategory \in [ProgressCategories -> SpentValues]
    /\ progPc = "loaded"

NextProgress ==
    RenderProgress
    /\ UNCHANGED <<dsVars, appVars, csvVars, numVars, dateVars, expVars, sheetVars, authVars>>

SpecProgress == InitProgress /\ [][NextProgress]_vars

\* a new tab: nothing is stored, nobody is logged in
InitAuth ==
    /\ DashInit /\ ExpIdle /\ CsvIdle /\ NumIdle /\ DateIdle /\ SheetIdle /\ ProgIdle
    /\ AuthIdle

NextAuth ==
    \/ \E password \in Passwords :
          Login(password)
          /\ UNCHANGED <<dsVars, appVars, csvVars, numVars, dateVars, expVars, sheetVars, progVars>>
    \/ GetSession
       /\ UNCHANGED <<dsVars, appVars, csvVars, numVars, dateVars, expVars, sheetVars, progVars>>
    \/ Logout
       /\ UNCHANGED <<dsVars, appVars, csvVars, numVars, dateVars, expVars, sheetVars, progVars>>
    \/ ReloadPage
       /\ UNCHANGED <<dsVars, appVars, csvVars, numVars, dateVars, expVars, sheetVars, progVars>>

SpecAuth == InitAuth /\ [][NextAuth]_vars

----------------------------------------------------------------------------
(* The cache (Spec) *)

\* C1: when a fetchAllData for project p has succeeded (cache[p] is its
\* snapshot, fetched at cache[p].fetchedAt, and no clearCache came since), a
\* further fetchAllData(p) made less than CACHE_TTL later returns that very
\* snapshot and issues no request.
C1_CachedWithinTTL ==
    [][\A p \in PROJECT_KEYS :
          ( /\ HandleLogin(p)
            /\ cache[p] # NoSnapshot
            /\ now - cache[p].fetchedAt < CACHE_TTL )
          => ( /\ requests' = requests
               /\ ret'.kind = "cached"
               /\ ret'.value = cache[p] )]_vars

\* C2: a click on the refresh button always issues three new requests,
\* whatever the age of the cache and whatever calls are still in flight.
C2_RefreshAlwaysFetches ==
    [][RefreshClick =>
          ( /\ requests' = requests + 3
            /\ nCalls' \in DOMAIN calls'
            /\ calls'[nCalls'].pending = 3
            /\ DOMAIN calls \subseteq DOMAIN calls' )]_vars

\* C2 happens: the cache was cleared while it held a snapshot of the project
\* fetched less than CACHE_TTL before (the one still shown in App.data), and
\* the refresh's call is in flight.
C2_RefreshedWhileFresh ==
    /\ dashboard
    /\ project # NoProject
    /\ cache[project] = NoSnapshot
    /\ data.key = project
    /\ \E c \in DOMAIN calls :
          /\ calls[c].key = project
          /\ calls[c].pending = 3
          /\ calls[c].now - data.fetchedAt < CACHE_TTL

\* C3: a fetchAllData(p) is served from the cache only if fewer than
\* CACHE_TTL minutes have passed since the fetch that produced cache[p], and
\* goes to the network once that time has passed, whichever projects were
\* fetched in between.
C3_ServedOnlyWhileFresh ==
    [][\A p \in PROJECT_KEYS :
          HandleLogin(p) =>
            /\ (requests' = requests => now - cache[p].fetchedAt < CACHE_TTL)
            /\ ( (cache[p] # NoSnapshot /\ now - cache[p].fetchedAt >= CACHE_TTL)
                 => requests' = requests + 3 )]_vars

\* C4: when one of the three sheet fetches fails, the call fails with that
\* error and no data, cache and cacheTimestamp stay as they were, and no
\* request is issued again.
C4_FailureAborts ==
    [][\A c \in 1..MaxCalls, e \in FetchErrors :
          SheetFails(c, e) =>
            /\ ret' = [kind |-> "error", value |-> NoSnapshot, error |-> e]
            /\ cache' = cache
            /\ cacheTimestamp' = cacheTimestamp
            /\ requests' = requests
            /\ data' = data
            /\ c \notin DOMAIN calls'
            /\ DOMAIN calls' = DOMAIN calls \ {c}]_vars

\* C4 happens: a call has failed while the cache held a snapshot, which is
\* still there with its timestamp.
C4_FailedWithCacheFilled ==
    /\ ret.kind = "error"
    /\ errorState
    /\ \E p \in PROJECT_KEYS : cache[p] # NoSnapshot /\ data = cache[p]
    /\ Truthy(cacheTimestamp)

----------------------------------------------------------------------------
(* parseCSV (SpecCSV, LiveCSV) *)

Last(s) == s[Len(s)]

NoQuote(text) == \A k \in 1..Len(text) : text[k] # DQ

\* s is the inside of a quoted field: each of its quotes is doubled
RECURSIVE WellEscaped(_)
WellEscaped(s) ==
    IF s = <<>> THEN TRUE
    ELSE IF s[1] = DQ
    THEN Len(s) >= 2 /\ s[2] = DQ /\ WellEscaped(Tail(Tail(s)))
    ELSE WellEscaped(Tail(s))

\* the characters a well escaped s stands for
RECURSIVE Unescaped(_)
Unescaped(s) ==
    IF s = <<>> THEN <<>>
    ELSE IF s[1] = DQ
    THEN <<DQ>> \o Unescaped(Tail(Tail(s)))
    ELSE <<s[1]>> \o Unescaped(Tail(s))

\* text is one field in double quotes
IsQuotedField(text) ==
    /\ Len(text) >= 2
    /\ text[1] = DQ
    /\ text[Len(text)] = DQ
    /\ WellEscaped(SubSeq(text, 2, Len(text) - 1))

\* C5: a text that is one double-quoted field parses to one row of one field,
\* whose value is the quoted characters with each doubled quote read as one
\* quote and with commas and line breaks kept (trimmed at its two ends, as
\* every field is); the empty quoted field alone yields no row.
C5_QuotedFieldIsOneField ==
    (csvPc = "done" /\ IsQuotedField(csvText)) =>
        LET body == Unescaped(SubSeq(csvText, 2, Len(csvText) - 1))
        IN  rows = IF body = <<>> THEN <<>> ELSE << <<Trim(body)>> >>

\* C5 happens: the quoted field  ,"  written  ","""  has been parsed to the
\* one field  ,"
C5_CommaAndQuoteParsed ==
    /\ csvPc = "done"
    /\ csvText = <<DQ, COMMA, DQ, DQ, DQ>>
    /\ rows = << << <<COMMA, DQ>> >> >>

\* text with each "\r\n" replaced by "\n"
RECURSIVE DropCRLF(_)
DropCRLF(s) ==
    IF s = <<>> THEN <<>>
    ELSE IF Len(s) >= 2 /\ s[1] = CR /\ s[2] = LF
    THEN <<LF>> \o DropCRLF(SubSeq(s, 3, Len(s)))
    ELSE <<s[1]>> \o DropCRLF(Tail(s))

\* the trimmed fields of one line
FieldsOf(line) ==
    LET parts == SplitAt(line, COMMA)
    IN  [k \in 1..Len(parts) |-> Trim(parts[k])]

\* the rows of a text without quotes: one for each line that a "\n" or a
\* "\r\n" ends, and one for what follows the last of them, unless nothing does
LinesToRows(text) ==
    LET lines == SplitAt(DropCRLF(text), LF)
        n == Len(lines)
        ended == [k \in 1..(n - 1) |-> FieldsOf(lines[k])]
    IN  IF lines[n] = <<>> THEN ended ELSE Append(ended, FieldsOf(lines[n]))

\* C6: every field parseCSV returns is trimmed, and outside quotes each "\n"
\* and each "\r\n" ends exactly one row, the fields of a row are what the
\* commas separate, and the last row is returned with or without a line
\* terminator after it.
C6_RowsAndTrimmedFields ==
    csvPc = "done" =>
        /\ \A r \in 1..Len(rows) : \A f \in 1..Len(rows[r]) :
              Trim(rows[r][f]) = rows[r][f]
        /\ NoQuote(csvText) => rows = LinesToRows(csvText)

\* C6 happens: "\r\n" ended the first row and the last row had no terminator
C6_TwoRowsParsed ==
    /\ csvPc = "done"
    /\ csvText = <<SP, "a", CR, LF, "a">>
    /\ rows = << << <<"a">> >>, << <<"a">> >> >>

\* a row of one empty field
GhostRow == << <<>> >>

\* C7: parseCSV returns no ghost row for empty trailing content: in the rows
\* of a text without quotes that has a row with a non-empty field, the last
\* row is not a single empty field.
C7_NoTrailingGhostRow ==
    ( /\ csvPc = "done"
      /\ NoQuote(csvText)
      /\ \E r \in 1..Len(rows) : \E f \in 1..Len(rows[r]) : rows[r][f] # <<>> )
    => Last(rows) # GhostRow

\* the one quote of text is never closed
OneOpenQuote(text) == Cardinality({k \in 1..Len(text) : text[k] = DQ}) = 1

\* for a text whose only quote is never closed: the characters of the field
\* the text ends in, those before the quote and those after it
OpenField(text) ==
    LET q == CHOOSE k \in 1..Len(text) : text[k] = DQ
        seps == {k \in 1..(q - 1) : text[k] \in {COMMA, LF}}
        from == IF seps = {} THEN 1
                ELSE 1 + CHOOSE k \in seps : \A h \in seps : h <= k
    IN  SubSeq(text, from, q - 1) \o SubSeq(text, q + 1, Len(text))

\* C8: parseCSV returns for every text, and when it ends inside a quote that
\* was never closed, the field accumulated so far is the last field of the
\* last row.
C8_TerminatesAndEmits ==
    /\ <>(csvPc = "done")
    /\ []( (csvPc = "done" /\ inQuotes /\ currentField # <<>>) =>
             (rows # <<>> /\ Last(Last(rows)) = Trim(currentField)) )
    /\ []( (csvPc = "done" /\ OneOpenQuote(csvText)
              /\ OpenField(csvText) # <<>>) =>
             (rows # <<>> /\ Last(Last(rows)) = Trim(OpenField(csvText))) )

\* C8 happens: the text  a,"a,  ends in an open quote and its last field is  a,
C8_OpenQuoteParsed ==
    /\ csvPc = "done"
    /\ inQuotes
    /\ csvText = <<"a", COMMA, DQ, "a", COMMA>>
    /\ rows = << << <<"a">>, <<"a", COMMA>> >> >>

----------------------------------------------------------------------------
(* parseNumber (SpecNum) *)

\* s is a decimal number from its first character to its last
IsDecimalNumber(s) ==
    LET p == FloatParts(s)
    IN  (p.intDigits # <<>> \/ p.fracDigits # <<>>) /\ p.rest = <<>>

\* C9: parseNumber returns the decimal value of what remains of its argument
\* once "$", white space, "," and the letters of MXN are removed, and returns
\* 0 for an absent or empty argument, for "-" and for every remainder that is
\* not a decimal number.
C9_ParseNumberTotal ==
    numPc = "done" =>
        numResult =
            IF numStr = NoString \/ numStr = <<>> THEN Zero
            ELSE IF IsDecimalNumber(Cleaned(numStr))
            THEN ParseFloat(Cleaned(numStr))
            ELSE Zero

----------------------------------------------------------------------------
(* parseDate (SpecDate) *)

AllDigits(s) == \A k \in 1..Len(s) : s[k] \in Digits

\* str has the shape M/D/YYYY, month and day of one or two digits
IsMDY(str) ==
    /\ str # NoString
    /\ LET parts == SplitAt(str, "/")
       IN  /\ Len(parts) = 3
           /\ Len(parts[1]) \in 1..2 /\ AllDigits(parts[1])
           /\ Len(parts[2]) \in 1..2 /\ AllDigits(parts[2])
           /\ Len(parts[3]) = 4 /\ AllDigits(parts[3])

\* C10: parseDate returns the calendar date (Y, M, D) for every string
\* M/D/YYYY, and for every other string what generic date parsing gives, null
\* when that fails; no result other than null is an invalid date.
C10_ParseDate ==
    datePc = "done" =>
        /\ IsMDY(dateStr) =>
              LET parts == SplitAt(dateStr, "/")
              IN  dateResult = CalendarDate(NatOf(parts[3]), NatOf(parts[1]),
                                            NatOf(parts[2]))
        /\ ~IsMDY(dateStr) =>
              dateResult = IF dateStr # NoString /\ dateStr # <<>>
                              /\ dateEngine.valid
                           THEN dateEngine ELSE NullDate
        /\ ~dateResult.null => dateResult.valid

----------------------------------------------------------------------------
(* normalizeCategory, calculateExpenseSummary, filterExpenses (SpecExp) *)

\* s starts with the lower-case word p, whatever the case of its letters
HasPrefixAnyCase(s, p) ==
    /\ Len(s) >= Len(p)
    /\ \A k \in 1..Len(p) :
          \E n \in 1..Len(LowerCase) :
              LowerCase[n] = p[k] /\ s[k] \in {LowerCase[n], UpperCase[n]}

\* the bucket of a label: one of the three canonical names, or the label
\* trimmed
Bucket(label) ==
    LET t == Trim(label)
    IN  IF HasPrefixAnyCase(t, <<"h", "a", "r", "d">>) THEN HardCost
        ELSE IF HasPrefixAnyCase(t, <<"s", "o", "f", "t">>) THEN SoftCost
        ELSE IF HasPrefixAnyCase(t, <<"t", "e", "r", "r", "e", "n", "o">>)
        THEN Terreno
        ELSE t

\* the indices of the expenses in the bucket key
InBucket(key) ==
    {k \in 1..Len(expenses) : Bucket(expenses[k].category) = key}

\* C11: normalizeCategory maps a label that, trimmed and ignoring case,
\* starts with hard, soft or terreno to the canonical name, and any other
\* label to itself trimmed; the keys of byCategory are these buckets, and
\* the category filter keeps exactly the expenses of the selected bucket.
C11_NormalizedEverywhere ==
    expPc = "rendered" =>
        /\ \A k \in 1..Len(expenses) :
              NormalizeCategory(expenses[k].category) = Bucket(expenses[k].category)
        /\ DOMAIN expSummary.byCategory =
              {Bucket(expenses[k].category) : k \in 1..Len(expenses)}
        /\ filterCategory # FilterAll =>
              /\ \A r \in 1..Len(tableRows) :
                    Bucket(tableRows[r].category) = filterCategory
              /\ Len(tableRows) =
                    Cardinality({k \in InBucket(filterCategory) :
                        filterSubcategory # FilterAll =>
                            expenses[k].subcategory = filterSubcategory})

\* the filter on Hard Cost keeps " Hard Costs" and drops "xHard"
C11_HardCostsFiltered ==
    /\ expPc = "rendered"
    /\ filterCategory = HardCost
    /\ Len(expenses) = 2
    /\ expenses[2].category = <<"x", "H", "a", "r", "d">>
    /\ Len(tableRows) = 1
    /\ tableRows[1].category = <<" ", "H", "a", "r", "d", " ", "C", "o", "s", "t", "s">>
    /\ HardCost \in DOMAIN expSummary.byCategory

\* the sum of the amounts of the expenses with index in S
RECURSIVE SumAmounts(_)
SumAmounts(S) ==
    IF S = {} THEN 0
    ELSE LET k == CHOOSE x \in S : TRUE
         IN  expenses[k].amount + SumAmounts(S \ {k})

\* C12: total is the sum of all amounts, byCategory[k] the sum of the
\* amounts of the expenses whose normalized category is k, and bySubcategory
\* holds, for every (normalized category, subcategory) pair, the sum of the
\* amounts of the expenses of that pair.
C12_SummarySums ==
    expPc = "rendered" =>
        /\ expSummary.total = SumAmounts(1..Len(expenses))
        /\ \A k \in 1..Len(expenses) :
              LET key == Bucket(expenses[k].category)
                  sub == expenses[k].subcategory
              IN  /\ GetProperty(expSummary.byCategory, key) =
                         NumberValue(SumAmounts(InBucket(key)))
                  /\ GetProperty(expSummary.bySubcategory, SubKey(key, sub)) =
                         NumberValue(SumAmounts(
                             {j \in InBucket(key) : expenses[j].subcategory = sub}))

\* the permutations of 1..n
OrdersOf(n) ==
    {p \in [1..n -> 1..n] : \A j, k \in 1..n : p[j] = p[k] => j = k}

\* C22: calculateExpenseSummary is order-independent: for every expense
\* list and every permutation of it, total, byCategory and bySubcategory
\* are equal (over integer amounts).
C22_OrderIndependent ==
    expPc = "rendered" =>
        \A p \in OrdersOf(Len(expenses)) :
            LET permuted == CalculateExpenseSummary(
                                [k \in 1..Len(expenses) |-> expenses[p[k]]])
            IN  /\ permuted.total = expSummary.total
                /\ permuted.byCategory = expSummary.byCategory
                /\ permuted.bySubcategory = expSummary.bySubcategory

\* the (normalized category, subcategory) pairs of the expenses
Pairs ==
    { <<Bucket(expenses[k].category), expenses[k].subcategory>> :
          k \in 1..Len(expenses) }

\* C27: the composite bySubcategory key "category|subcategory" is
\* injective: two expenses with different (normalized category,
\* subcategory) pairs never share a key, so every bySubcategory entry is the
\* sum for exactly one pair.
C27_CompositeKeyInjective ==
    expPc = "rendered" =>
        /\ \A a, b \in Pairs :
              a # b => SubKey(a[1], a[2]) # SubKey(b[1], b[2])
        /\ \A key \in DOMAIN expSummary.bySubcategory :
              Cardinality({a \in Pairs : SubKey(a[1], a[2]) = key}) = 1

----------------------------------------------------------------------------
(* The expense table (SpecTable) *)

\* the expense has no parsed date: its dateObj is null, or is the Invalid
\* Date that parseDate returns for a date out of range
NoParsedDate(e) == e.dateObj.null \/ ~e.dateObj.valid

\* C23: whenever a from-date or to-date filter is set every expense without
\* a parsed date is excluded, and in the displayed order (date descending)
\* every dated expense precedes every expense without a date.
C23_AbsentDatesAbsent ==
    expPc = "rendered" =>
        /\ (filterDateFrom # NoFilterDate \/ filterDateTo # NoFilterDate) =>
              \A n \in 1..Len(tableRows) : ~NoParsedDate(tableRows[n])
        /\ \A j, k \in 1..Len(tableRows) :
              j < k => ~(NoParsedDate(tableRows[j]) /\ ~NoParsedDate(tableRows[k]))

\* the same of the expenses whose dateObj is null
NullDatesAbsent ==
    expPc = "rendered" =>
        /\ (filterDateFrom # NoFilterDate \/ filterDateTo # NoFilterDate) =>
              \A n \in 1..Len(tableRows) : ~tableRows[n].dateObj.null
        /\ \A j, k \in 1..Len(tableRows) :
              j < k => ~(tableRows[j].dateObj.null /\ ~tableRows[k].dateObj.null)

----------------------------------------------------------------------------
(* parseBudget (SpecBudget) *)

\* c and d are the same character, or the two cases of one letter
SameLetter(c, d) ==
    \/ c = d
    \/ \E n \in 1..Len(LowerCase) : {c, d} = {LowerCase[n], UpperCase[n]}

StartsWithIgnoringCase(s, p) ==
    /\ Len(s) >= Len(p)
    /\ \A k \in 1..Len(p) : SameLetter(s[k], p[k])

\* the row has a column-B cell that, trimmed, starts with the label
IsRowOf(row, label) ==
    Len(row) >= 2 /\ StartsWithIgnoringCase(Trim(row[2]), label)

\* the indices (from 0) of the rows of the label
LabelRows(label) ==
    {idx \in 0..(Len(sheetRows) - 1) : IsRowOf(sheetRows[idx + 1], label)}

\* the least index of S, -1 when there is none
FirstOf(S) ==
    IF S = {} THEN -1 ELSE CHOOSE idx \in S : \A other \in S : idx <= other

\* column K of the first row of the label, <<>> when no row has the label
FirstAmount(label) ==
    IF LabelRows(label) = {} THEN <<>>
    ELSE LET row == sheetRows[FirstOf(LabelRows(label)) + 1]
         IN  <<ParseNumber(IF Len(row) >= 11 THEN row[11] ELSE NoString)>>

\* the labels among labels that some row has
Present(labels) ==
    {n \in 1..Len(labels) : LabelRows(labels[n]) # {}}

\* C14: findRow gives the first row whose column-B cell, trimmed and
\* ignoring case, starts with the label, findRowFrom the first such row at
\* or after the start index, both -1 when there is none; a label without a
\* row leaves its total unset and its house or line item out, and nothing
\* is thrown.
C14_FirstLabelRow ==
    sheetPc = "parsed" =>
        /\ \A label \in KnownLabels :
              /\ FindRow(sheetRows, label) = FirstOf(LabelRows(label))
              /\ \A start \in -1..(Len(sheetRows) + 1) :
                    FindRowFrom(sheetRows, label, start) =
                        FirstOf({idx \in LabelRows(label) : idx >= start})
        /\ parsedModel.hardCosts.total = FirstAmount(TOTAL_HARD)
        /\ parsedModel.hardCosts.construction = FirstAmount(CONSTRUCCION)
        /\ parsedModel.softCosts.total = FirstAmount(TOTAL_SOFT)
        /\ parsedModel.terreno.total = FirstAmount(VALOR_TERRENO)
        /\ Len(parsedModel.houses) = Cardinality(Present(<<CASA_1, CASA_2>>))
        /\ Len(parsedModel.softCosts.items) = Cardinality(Present(softLabels))
        /\ Len(parsedModel.terreno.items) = Cardinality(Present(terrenoLabels))
        /\ \A n \in 1..Len(parsedModel.terreno.items) :
              /\ parsedModel.terreno.items[n].name # TypeError
              /\ <<parsedModel.terreno.items[n].amount>> \in
                    {FirstAmount(terrenoLabels[k]) : k \in 1..Len(terrenoLabels)}
        /\ \A n \in 1..Len(parsedModel.houses) :
              parsedModel.houses[n].name # TypeError

\* two rows start with "Total de Hard Cost", the total is the one of the
\* first; no house, no Terreno total
C14_FirstOfTwoRows ==
    /\ sheetPc = "parsed"
    /\ Cardinality(LabelRows(TOTAL_HARD)) = 2
    /\ Len(sheetRows[FirstOf(LabelRows(TOTAL_HARD)) + 1]) = 11
    /\ parsedModel.hardCosts.total = <<[sign |-> 1, int |-> 12, frac |-> <<>>]>>
    /\ parsedModel.houses = <<>>
    /\ parsedModel.terreno.total = <<>>

\* the row starts with one of the labels that parseBudget looks for
IsLabelRow(row) == \E label \in KnownLabels : IsRowOf(row, label)

\* C15: inserting, or deleting, a row whose column-B cell starts with none
\* of the known labels leaves the result of parseBudget unchanged.
C15_OtherRowsDoNotMatter ==
    [][\A at \in 0..MaxRows :
          /\ \A row \in BudgetRows :
                InsertRow(at, row, MaxRows) /\ ~IsLabelRow(row)
                    => ParseBudget(sheetRows') = ParseBudget(sheetRows)
          /\ DeleteRow(at) /\ ~IsLabelRow(RowAt(sheetRows, at))
                => ParseBudget(sheetRows') = ParseBudget(sheetRows)]_vars

\* a row of notes was inserted above the rows of the total and of the house
C15_InsertedAboveLabels ==
    /\ lastEdit = "insert"
    /\ sheetPc = "parsed"
    /\ Len(sheetRows) = 3
    /\ ~IsLabelRow(sheetRows[1])
    /\ CellAt(sheetRows[1], 10) = <<"4">>
    /\ parsedModel.hardCosts.total = <<[sign |-> 1, int |-> 12, frac |-> <<>>]>>
    /\ Len(parsedModel.houses) = 1

----------------------------------------------------------------------------
(* parseExpenses (SpecLedger) *)

\* the cell of index k (from 0) of a row, empty when the row is too short
CellOrEmpty(row, k) == IF Len(row) > k THEN row[k + 1] ELSE <<>>

\* the row has neither a category nor an amount other than 0
IsEmptyRow(row) ==
    /\ Trim(CellOrEmpty(row, 1)) = <<>>
    /\ ParseNumber(CellOrEmpty(row, 4)) = Zero

\* the rows after the header that are not empty, in the order of the sheet
DataRows ==
    SelectSeq(SubSeq(sheetRows, 2, Len(sheetRows)), LAMBDA row : ~IsEmptyRow(row))

\* C13: parseExpenses skips the header row and discards a data row if and
\* only if it has neither a category nor a non-zero amount; every other
\* data row yields one Expense, in input order, whose amount is the parsed
\* value of column E, 0 when it cannot be parsed.
C13_OneExpensePerDataRow ==
    sheetPc = "parsed" =>
        /\ Len(parsedModel) = Len(DataRows)
        /\ \A n \in 1..Len(parsedModel) :
              n <= Len(DataRows) =>
                  /\ parsedModel[n].category = Trim(CellOrEmpty(DataRows[n], 1))
                  /\ parsedModel[n].amount = ParseNumber(CellOrEmpty(DataRows[n], 4))

\* the rows after the header that have five cells or more and are not empty
LongDataRows == SelectSeq(DataRows, LAMBDA row : Len(row) >= 5)

\* C13 (amended): parseExpenses skips the header row and discards a data
\* row if and only if it has fewer than five cells or has neither a category
\* nor a non-zero amount; every other data row yields one Expense, in input
\* order, whose amount is the parsed value of column E, 0 when it cannot be
\* parsed.
C13_OneExpensePerLongDataRow ==
    sheetPc = "parsed" =>
        /\ Len(parsedModel) = Len(LongDataRows)
        /\ \A n \in 1..Len(parsedModel) :
              n <= Len(LongDataRows) =>
                  /\ parsedModel[n].category = Trim(LongDataRows[n][2])
                  /\ parsedModel[n].amount = ParseNumber(LongDataRows[n][5])

\* a ledger of a header, a row with no category and the amount $1,2, and a
\* row of four cells with a category: one expense, of amount 12
C13_ShortRowDiscarded ==
    /\ sheetPc = "parsed"
    /\ Len(sheetRows) = 3
    /\ Len(sheetRows[2]) = 5 /\ sheetRows[2][2] = <<>>
    /\ Len(sheetRows[3]) = 4 /\ sheetRows[3][2] # <<>>
    /\ Len(parsedModel) = 1
    /\ parsedModel[1].category = <<>>
    /\ parsedModel[1].amount = [sign |-> 1, int |-> 12, frac |-> <<>>]

\* parseBudget raised no exception: every name is a string
BudgetDegrades ==
    LET model == ParseBudget(sheetRows)
    IN  /\ \A n \in 1..Len(model.houses) : model.houses[n].name # TypeError
        /\ \A n \in 1..Len(model.softCosts.items) :
              model.softCosts.items[n].name # TypeError
        /\ \A n \in 1..Len(model.terreno.items) :
              model.terreno.items[n].name # TypeError

\* parseCapital raised no exception: every name and label is a string
CapitalDegrades ==
    LET model == ParseCapital(sheetRows)
        indicators == << model.projectIndicators.totalIncome,
                         model.projectIndicators.projectCost,
                         model.projectIndicators.profit,
                         model.projectIndicators.margin,
                         model.capitalIndicators.capitalContributed,
                         model.capitalIndicators.totalReturn,
                         model.capitalIndicators.roi,
                         model.capitalIndicators.capitalMultiple >>
    IN  /\ \A n \in 1..Len(model.investors) : model.investors[n].name # TypeError
        /\ \A n \in 1..Len(indicators) :
              indicators[n] # <<>> => indicators[n][1].label # TypeError

\* C16: for any grid of rows the parsers return a model without throwing;
\* a short or missing row, an unparsable number and an unparsable date each
\* degrade to a default: 0, an empty list, a null date.  For parseExpenses:
\* no field is an exception, and every dateObj is null or a valid date.
C16_ParsersDegrade ==
    sheetPc = "parsed" =>
        \A n \in 1..Len(parsedModel) :
            /\ parsedModel[n].date # TypeError
            /\ parsedModel[n].category # TypeError
            /\ parsedModel[n].subcategory # TypeError
            /\ parsedModel[n].dateObj.null \/ parsedModel[n].dateObj.valid

\* the same, the dates left aside
LedgerDegrades ==
    sheetPc = "parsed" =>
        \A n \in 1..Len(parsedModel) :
            /\ parsedModel[n].date # TypeError
            /\ parsedModel[n].category # TypeError
            /\ parsedModel[n].subcategory # TypeError

----------------------------------------------------------------------------
(* parseCapital (SpecCapital) *)

\* the project indicators and the capital indicators of a sheet
Indicators(sheet) ==
    << ParseCapital(sheet).projectIndicators,
       ParseCapital(sheet).capitalIndicators >>

\* C20: the project indicators and the capital indicators do not depend on
\* the absolute row position: inserting a row above them in the published
\* sheet leaves their parsed values unchanged.
C20_IndicatorsKeepTheirValues ==
    [][\A at \in 0..12, row \in CapitalRows :
          /\ Len(sheetRows) = Len(CapitalSheet(0))
          /\ InsertRow(at, row, Len(sheetRows) + 1)
          => Indicators(sheetRows') = Indicators(sheetRows)]_vars


\* the indicators of a parsed model, in the order of the sheet
IndicatorsOf(model) ==
    << model.projectIndicators.totalIncome,
       model.projectIndicators.projectCost,
       model.projectIndicators.profit,
       model.projectIndicators.margin,
       model.capitalIndicators.capitalContributed,
       model.capitalIndicators.totalReturn,
       model.capitalIndicators.roi,
       model.capitalIndicators.capitalMultiple >>

\* the absolute row indices of the indicators, the indicators that are
\* percentages, and the labels used when column A is empty
IndicatorRows == <<12, 13, 14, 15, 18, 19, 20, 21>>
IndicatorIsPercent == <<FALSE, FALSE, FALSE, TRUE, FALSE, FALSE, TRUE, FALSE>>
IndicatorLabels ==
    << INGRESOS_TOTALES, COSTO_DEL_PROYECTO, UTILIDAD, MARGEN_DE_UTILIDAD,
       CAPITAL_APORTADO, RETORNO_TOTAL, ROI, MULTIPLO_DE_CAPITAL >>

\* what stands in the row of absolute index IndicatorRows[n] of the sheet
RowValue(n) ==
    IF Len(sheetRows) <= IndicatorRows[n] THEN <<>>
    ELSE LET row == sheetRows[IndicatorRows[n] + 1]
             cell == CellOrEmpty(row, 2)
         IN  << [value |-> IF IndicatorIsPercent[n]
                           THEN (IF ParseFloat(Trim(SelectSeq(cell,
                                        LAMBDA ch : ch \notin {"%", SP, LF, CR, "\t"}))) = NaN
                                 THEN Zero
                                 ELSE ParseFloat(Trim(SelectSeq(cell,
                                        LAMBDA ch : ch \notin {"%", SP, LF, CR, "\t"}))))
                           ELSE ParseNumber(cell),
                 label |-> IF CellOrEmpty(row, 0) = <<>> THEN IndicatorLabels[n]
                           ELSE Trim(CellOrEmpty(row, 0))] >>

\* C20 (amended): in the capital sheet the project indicators and the
\* capital indicators are extracted by absolute row index too, as the uses
\* and the investors are: each is the value and the label of the row that
\* stands at index 12..15 or 18..21, whatever that row is, and is unset when
\* the sheet has no such row; so a row inserted above an indicator changes it
\* to the value of the row formerly above it.
C20_IndicatorsByAbsoluteRow ==
    sheetPc = "parsed" =>
        \A n \in 1..Len(IndicatorRows) :
            IndicatorsOf(parsedModel)[n] = RowValue(n)

\* a row was inserted at the top of the published sheet: totalIncome is read
\* from the header of the section and projectCost from the row of the income
C20_IndicatorsShifted ==
    /\ sheetPc = "parsed"
    /\ lastEdit = "insert"
    /\ Len(sheetRows) = Len(CapitalSheet(0)) + 1
    /\ sheetRows[1] = BlankRow
    /\ parsedModel.projectIndicators.totalIncome =
          << [value |-> Zero, label |-> sheetRows[13][1]] >>
    /\ parsedModel.projectIndicators.projectCost[1].value =
          [sign |-> 1, int |-> 300, frac |-> <<>>]
    /\ parsedModel.projectIndicators.projectCost[1].label = INGRESOS_TOTALES

\* the row of index idx (from 0) has a name in column A
HasName(idx) ==
    /\ idx < Len(sheetRows)
    /\ Trim(CellOrEmpty(sheetRows[idx + 1], 0)) # <<>>

\* the number of rows of the run that starts at index 6 and ends before the
\* first row without a name, before index 11 or at the end of the sheet
InvestorRun ==
    CHOOSE k \in 0..5 :
        /\ \A j \in 0..(k - 1) : HasName(6 + j)
        /\ k = 5 \/ ~HasName(6 + k)

\* C21: the investors list is exactly the run of rows starting at index 6,
\* in sheet order, that ends before the first row whose name cell is
\* missing or blank, before index 11, or at the end of the sheet; so it
\* holds at most 5 investors and no investor has an empty name.
C21_InvestorRun ==
    sheetPc = "parsed" =>
        /\ Len(parsedModel.investors) = InvestorRun
        /\ Len(parsedModel.investors) <= 5
        /\ \A n \in 1..Len(parsedModel.investors) :
              n <= InvestorRun =>
                  /\ parsedModel.investors[n].name =
                        Trim(CellOrEmpty(sheetRows[6 + n], 0))
                  /\ parsedModel.investors[n].name # <<>>
                  /\ parsedModel.investors[n].amount =
                        ParseNumber(CellOrEmpty(sheetRows[6 + n], 2))

\* five investors, and the row of index 11 has a name too: the list stops
\* at the fifth
C21_FiveInvestors ==
    /\ sheetPc = "parsed"
    /\ Len(sheetRows) > 11
    /\ HasName(11)
    /\ Len(parsedModel.investors) = 5
    /\ parsedModel.investors[2].name = <<"L", "u", "i", "s">>

----------------------------------------------------------------------------
(* The progress bars (SpecProgress) *)

\* the budget and the spent amount of a category in the data shown
BudgetOf(cat) == IF budgetTotals[cat] = <<>> THEN 0 ELSE budgetTotals[cat][1]
SpentOf(cat) == IF byCategory[cat].type = "number" THEN byCategory[cat].n ELSE 0

Abs(n) == IF n < 0 THEN -n ELSE n

\* the item shows the percentage num/den: its text is num/den to the nearest
\* tenth, it is red exactly when num/den is above 100, and its width is
\* num/den or 100, whichever is less
Shows(item, num, den) ==
    /\ 2 * Abs(item.text * den - 10 * num) <= den
    /\ item.colorClass = "red" <=> num > 100 * den
    /\ item.width.num * den =
          (IF num > 100 * den THEN 100 * den ELSE num) * item.width.den
    /\ item.width.num <= 100 * item.width.den

\* the badge shows the percentage num/den, red exactly when it is above 100
BadgeShows(badge, num, den) ==
    /\ 2 * Abs(badge.text * den - 10 * num) <= den
    /\ badge.className = "badge-red" <=> num > 100 * den

\* C17: for every budget category the progress percentage is
\* spent/budget*100 when the budget is greater than 0 and 0 otherwise; only
\* the bar width is clamped to at most 100, while the displayed percentage
\* and the over-budget colouring (above 100) use the unclamped value.
C17_ProgressPercentage ==
    progPc = "rendered" =>
        \A cat \in ProgressCategories :
            LET num == IF BudgetOf(cat) > 0 THEN SpentOf(cat) * 100 ELSE 0
                den == IF BudgetOf(cat) > 0 THEN BudgetOf(cat) ELSE 1
            IN  /\ Shows(categoryProgress[cat], num, den)
                /\ Shows(budgetProgress[cat], num, den)
                /\ BadgeShows(badges[cat], num, den)

\* Hard Cost at 250 of 100: 250.0%, red, a bar of width 100; Soft Cost with
\* a budget of 0: 0.0%, not red, no division by zero
C17_OverBudgetAndNoBudget ==
    /\ progPc = "rendered"
    /\ budgetTotals[HardCost] = <<100>> /\ byCategory[HardCost] = NumberValue(250)
    /\ categoryProgress[HardCost] =
          [text |-> 2500, colorClass |-> "red", width |-> Quotient(100, 1)]
    /\ badges[HardCost] = [text |-> 2500, className |-> "badge-red"]
    /\ budgetTotals[SoftCost] = <<0>> /\ byCategory[SoftCost] = NumberValue(50)
    /\ budgetProgress[SoftCost] =
          [text |-> 0, colorClass |-> "purple", width |-> Quotient(0, 1)]

----------------------------------------------------------------------------
(* The session (SpecAuth) *)

\* two strings are equal, the case of their letters ignored
EqualIgnoringCase(a, b) ==
    Len(a) = Len(b) /\ \A k \in 1..Len(a) : SameLetter(a[k], b[k])

\* the projects whose configured password is the trimmed password typed,
\* ignoring case
Configured(password) ==
    {key \in PROJECT_KEYS : EqualIgnoringCase(Trim(password), PasswordOf[key])}

\* C18: login(password) returns the project and records it in currentProject
\* and in session storage exactly when the trimmed password equals a
\* configured password ignoring case, and otherwise returns null and leaves
\* currentProject and the stored session unchanged; over any sequence of
\* login, getSession and logout calls, getSession returns a project if and
\* only if the last successful login has not been followed by a logout.
C18_AuthSession ==
    [][ /\ \A password \in Passwords :
              authCall' = [op |-> "login", password |-> password] =>
                  IF Configured(password) # {}
                  THEN /\ authResult' \in Configured(password)
                       /\ currentProject' = authResult'
                       /\ sessionStorage' = authResult'
                  ELSE /\ authResult' = NoProject
                       /\ currentProject' = currentProject
                       /\ sessionStorage' = sessionStorage
        /\ authCall'.op = "getSession" => (authResult' # NoProject <=> loggedIn)
      ]_vars

\* a login has succeeded, no logout came since, and getSession has returned
\* the project of the login
C18_SessionAfterReload ==
    /\ authCall.op = "getSession"
    /\ authResult = "ARBOLEDAS"
    /\ currentProject = "ARBOLEDAS"
    /\ sessionStorage = "ARBOLEDAS"
    /\ loggedIn

----------------------------------------------------------------------------
(* The refresh button (Spec) *)

\* C19: while a loadData/fetchAllData call is in flight the refresh control
\* cannot start a second one: a click on it starts a call only when no call
\* is in flight, so at most one fetchAllData call is in flight at any time.
C19_RefreshStartsNoSecondCall ==
    [][RefreshClick => DOMAIN calls = {}]_vars

----------------------------------------------------------------------------
(* Overlapping loadData calls (Spec) *)

\* C24: when several fetchAllData calls for the same project key overlap,
\* a slower, earlier-started call never overwrites the result of a
\* later-started one: the call that resolves finds in the cache, and in
\* App.data, no snapshot of its key fetched by a call started after it, so
\* that after all of them the snapshot of the call started last remains.
C24_LastStartedWins ==
    [][\A c \in DOMAIN calls :
          (calls[c].pending = 1 /\ SheetArrives(c)) =>
            /\ cache[calls[c].key].call <= c
            /\ (data.key = calls[c].key => data.call <= c)]_vars

\* C25: in every state of the dashboard at most one of the panels
\* loading-state, error-state and main-content is visible; the error panel
\* and the main content are never visible together.
C25_OnePanelVisible ==
    dashboard =>
        /\ ~(loadingState /\ errorState)
        /\ ~(loadingState /\ mainContent)
        /\ ~(errorState /\ mainContent)

\* C26: after handleLogout App.data stays null, and no project data is
\* rendered, until the next login, even when a loadData call that started
\* before the logout completes after it.
C26_NoDataAfterLogout ==
    ~dashboard => data = NoSnapshot

====
